---- MODULE Spec2Model ----
(***************************************************************************)
(* Model of ssh-parameter-manager: the local parameters.yml editor         *)
(* (parameter_updater.py, class ParameterUpdater) and the remote update    *)
(* pipeline (ssh_manager.py, class SSHManager).                            *)
(*                                                                         *)
(* Python dicts are sequences of <<key, value>> pairs with distinct keys   *)
(* (insertion order is kept).  A YAML value is a record                    *)
(*   [kind |-> "scalar" | "map" | "null", s |-> string, m |-> dict].       *)
(* A file is a record                                                      *)
(*   [exists, comments, ok, doc, mode, owner, group]                       *)
(* where comments is the number of comment lines in front of the YAML      *)
(* body, ok says whether the body parses, and doc is the parsed body.      *)
(***************************************************************************)
EXTENDS Integers, Sequences, FiniteSets, TLC

(***************************************************************************)
(* Bounds                                                                  *)
(***************************************************************************)
\* number of update_remote_parameters calls explored
MaxCalls == 1
\* number of local update_parameters calls explored
MaxEdits == 2
\* last second the wall clock can reach
MaxClock == 1
\* number of connections made
MaxConns == 3
\* number of connection attempts that fail
MaxFails == 2

(***************************************************************************)
(* YAML values and Python dicts                                            *)
(***************************************************************************)
Sc(x) == [kind |-> "scalar", s |-> x, m |-> <<>>]
Mp(d) == [kind |-> "map", s |-> "", m |-> d]
Null == [kind |-> "null", s |-> "", m |-> <<>>]

DictKeys(d) == {d[i][1] : i \in 1..Len(d)}
HasKey(d, k) == \E i \in 1..Len(d) : d[i][1] = k
DictGet(d, k) == d[CHOOSE i \in 1..Len(d) : d[i][1] = k][2]

\* d[k] = v: an existing key keeps its position, a new key goes to the end
DictSet(d, k, v) ==
    IF HasKey(d, k)
    THEN [i \in 1..Len(d) |-> IF d[i][1] = k THEN <<k, v>> ELSE d[i]]
    ELSE Append(d, <<k, v>>)

\* mutant of dict_update: only adds the keys that are new, keeps old values
RECURSIVE dict_update_keep_old(_, _)
dict_update_keep_old(d, n) ==
    IF n = <<>> THEN d
    ELSE dict_update_keep_old(
             IF HasKey(d, Head(n)[1]) THEN d ELSE Append(d, Head(n)),
             Tail(n))

\* d.update(n)
RECURSIVE dict_update(_, _)
dict_update(d, n) ==
    IF n = <<>> THEN d
    ELSE dict_update(DictSet(d, Head(n)[1], Head(n)[2]), Tail(n))

(***************************************************************************)
(* Files                                                                   *)
(***************************************************************************)
NoFile == [exists |-> FALSE, comments |-> 0, ok |-> TRUE, doc |-> Null,
           mode |-> "", owner |-> "", group |-> ""]

MkFile(c, ok, doc, meta) ==
    [exists |-> TRUE, comments |-> c, ok |-> ok, doc |-> doc,
     mode |-> meta[1], owner |-> meta[2], group |-> meta[3]]

Content(f) == [comments |-> f.comments, ok |-> f.ok, doc |-> f.doc]
Meta(f) == <<f.mode, f.owner, f.group>>
WithContent(f, g) == [f EXCEPT !.comments = g.comments, !.ok = g.ok, !.doc = g.doc]

\* the document bodies the files under edit start with
ParamsAB == <<<<"database_host", Sc("old-db")>>, <<"secret", Sc("xyz")>>>>
ParamsNested ==
    <<<<"mailer", Mp(<<<<"host", Sc("a")>>, <<"port", Sc("25")>>>>)>>, <<"locale", Sc("en")>>>>
Imports == <<"imports", Sc("services.yml")>>
Framework == <<"framework", Mp(<<<<"locale", Sc("de")>>>>)>>

InitDocs ==
    { Mp(<<Imports, <<"parameters", Mp(ParamsAB)>>, Framework>>),
      Mp(<<<<"parameters", Mp(ParamsNested)>>, Imports>>),
      Mp(<<Imports, Framework>>),
      Mp(<<Imports, <<"parameters", Null>>>>),
      Mp(<<<<"parameters", Sc("text")>>>>),
      Sc("- a list"),
      Null }

InitMetas == {<<"644", "www-data", "www-data">>, <<"600", "root", "wheel">>}

InitFiles ==
    {MkFile(2, TRUE, d, m) : d \in InitDocs, m \in InitMetas}
    \cup {MkFile(0, FALSE, Null, m) : m \in InitMetas}

\* the parameter sets passed to the update operations
NewParams ==
    { <<<<"database_host", Sc("new-db.example.com")>>>>,
      <<<<"secret", Sc("abc")>>, <<"cache", Sc("redis")>>>>,
      <<<<"mailer", Mp(<<<<"host", Sc("b")>>>>)>>>>,
      <<>> }

(***************************************************************************)
(* ParameterUpdater (parameter_updater.py)                                 *)
(*                                                                         *)
(* The outcome of the system calls an update makes is an input of the      *)
(* model: o.stat, o.copy, o.write, o.chown, o.chmod are "ok" or "err".     *)
(***************************************************************************)
SysOutcomes ==
    {[stat |-> a, copy |-> b, write |-> c, chown |-> d, chmod |-> e] :
        a \in {"ok", "err"}, b \in {"ok", "err"}, c \in {"ok", "err_open", "err_write"},
        d \in {"ok", "err"}, e \in {"ok", "err"}}

AllOk == [stat |-> "ok", copy |-> "ok", write |-> "ok", chown |-> "ok", chmod |-> "ok"]

\* the first failing call ends an update, so one failure per run covers all runs
OneFailure ==
    {o \in SysOutcomes :
        Cardinality({f \in {"stat", "copy", "write", "chown", "chmod"} : o[f] # "ok"}) <= 1}

\* mutant of load_yaml_file: a document without `parameters` is an error
load_yaml_file_needs_parameters(f) ==
    [raised |-> ~f.ok \/ ~(f.doc.kind = "map" /\ HasKey(f.doc.m, "parameters")),
     content |-> f.doc]

\* yaml.safe_load(file), then `content or {}`: comment lines are not part of
\* the result, an empty document (None) and every other falsy value become {}
load_yaml_file(f) ==
    [raised |-> ~f.ok,
     content |-> IF \/ f.doc.kind = "null"
                    \/ (f.doc.kind = "scalar" /\ f.doc.s = "")
                    \/ (f.doc.kind = "map" /\ f.doc.m = <<>>)
                 THEN Mp(<<>>) ELSE f.doc]

\* mutant of save_yaml_file: writes the parameters section only
save_yaml_file_params_only(f, content, w) ==
    CASE w = "ok" ->
           [raised |-> FALSE,
            file |-> [f EXCEPT !.comments = 1, !.ok = TRUE,
                               !.doc = Mp(<<<<"parameters", DictGet(content.m, "parameters")>>>>)]]
      [] w = "err_open" -> [raised |-> TRUE, file |-> f]
      [] OTHER -> [raised |-> TRUE,
                   file |-> [f EXCEPT !.comments = 1, !.ok = FALSE, !.doc = Null]]

\* mutant of save_yaml_file: opens the file for appending the preamble
save_yaml_file_append(f, content, w) ==
    CASE w = "ok" ->
           [raised |-> FALSE,
            file |-> [f EXCEPT !.comments = f.comments + 1, !.ok = TRUE, !.doc = content]]
      [] w = "err_open" -> [raised |-> TRUE, file |-> f]
      [] OTHER -> [raised |-> TRUE,
                   file |-> [f EXCEPT !.comments = 1, !.ok = FALSE, !.doc = Null]]

\* open(file_path, 'w'); write the one preamble line; yaml.dump(content) with
\* sort_keys=False.  The file keeps its mode and owner.  An IOError is raised
\* either by open (file untouched) or while writing (file truncated).
save_yaml_file(f, content, w) ==
    CASE w = "ok" ->
           [raised |-> FALSE,
            file |-> [f EXCEPT !.comments = 1, !.ok = TRUE, !.doc = content]]
      [] w = "err_open" -> [raised |-> TRUE, file |-> f]
      [] OTHER -> [raised |-> TRUE,
                   file |-> [f EXCEPT !.comments = 1, !.ok = FALSE, !.doc = Null]]

\* os.stat plus the pwd/grp lookups; raises OSError or KeyError
ParameterUpdater_get_file_permissions(f, o) ==
    [raised |-> o.stat = "err", permissions |-> f.mode, uid |-> f.owner, gid |-> f.group]

\* mutant of ParameterUpdater_restore_file_permissions: os.chmod first, then
\* os.chown
ParameterUpdater_restore_file_permissions_mode_first(f, permissions, uid, gid, o) ==
    IF o.chmod = "err"
    THEN [raised |-> TRUE, file |-> f, log |-> <<"chmod">>]
    ELSE IF o.chown = "err"
    THEN [raised |-> TRUE, file |-> [f EXCEPT !.mode = permissions],
          log |-> <<"chmod", "chown">>]
    ELSE [raised |-> FALSE,
          file |-> [f EXCEPT !.owner = uid, !.group = gid, !.mode = permissions],
          log |-> <<"chmod", "chown">>]

\* os.chown first, then os.chmod; the first OSError is re-raised
ParameterUpdater_restore_file_permissions(f, permissions, uid, gid, o) ==
    IF o.chown = "err"
    THEN [raised |-> TRUE, file |-> f, log |-> <<"chown">>]
    ELSE IF o.chmod = "err"
    THEN [raised |-> TRUE, file |-> [f EXCEPT !.owner = uid, !.group = gid],
          log |-> <<"chown", "chmod">>]
    ELSE [raised |-> FALSE,
          file |-> [f EXCEPT !.owner = uid, !.group = gid, !.mode = permissions],
          log |-> <<"chown", "chmod">>]

\* mutant of create_backup: the IOError is logged and swallowed
create_backup_swallow(f, o) ==
    [raised |-> FALSE, backup |-> IF o.copy = "err" THEN NoFile ELSE f]

\* shutil.copy2(file_path, backup_path); an IOError is re-raised
create_backup(f, o) ==
    [raised |-> o.copy = "err", backup |-> IF o.copy = "err" THEN NoFile ELSE f]

EdResult(r, f, b, l) == [ret |-> r, file |-> f, backup |-> b, log |-> l]

\* ParameterUpdater.update_parameters(file_path, new_parameters, create_backup):
\* every exception is caught at the end and turned into False.
update_parameters(f, new_parameters, backup, o) ==
    IF ~f.exists THEN EdResult(FALSE, f, NoFile, <<>>)
    ELSE
    LET perm == ParameterUpdater_get_file_permissions(f, o) IN
    IF perm.raised THEN EdResult(FALSE, f, NoFile, <<>>)
    ELSE
    LET bk == IF backup THEN create_backup(f, o) ELSE [raised |-> FALSE, backup |-> NoFile]
        l1 == IF backup THEN <<"copy2">> ELSE <<>>
    IN
    IF bk.raised THEN EdResult(FALSE, f, NoFile, l1)
    ELSE
    LET ld == load_yaml_file(f) IN
    IF ld.raised \/ ld.content.kind # "map" THEN EdResult(FALSE, f, bk.backup, l1)
    ELSE
    LET c1 == IF HasKey(ld.content.m, "parameters") THEN ld.content.m
              ELSE Append(ld.content.m, <<"parameters", Mp(<<>>)>>)
        pv == DictGet(c1, "parameters")
    IN
    IF pv.kind # "map" THEN EdResult(FALSE, f, bk.backup, l1)
    ELSE
    LET c2 == DictSet(c1, "parameters", Mp(dict_update(pv.m, new_parameters)))
        sv == save_yaml_file(f, Mp(c2), o.write)
        l2 == l1 \o <<"write">>
    IN
    IF sv.raised THEN EdResult(FALSE, sv.file, bk.backup, l2)
    ELSE
    LET rs == ParameterUpdater_restore_file_permissions(
                  sv.file, perm.permissions, perm.uid, perm.gid, o)
    IN EdResult(~rs.raised, rs.file, bk.backup, l2 \o rs.log)

(***************************************************************************)
(* Configuration (ssh_config.yml) and the inputs of the remote pipeline    *)
(***************************************************************************)
ConfigServers == {"s1"}
ConfigCustomers(s) == IF s = "s1" THEN {"custA", "custB"} ELSE {}
Targets == {<<s, c>> : s \in ConfigServers, c \in {"custA", "custB"}}

\* os.path.basename(customer_config["parameters_path"]): every customer's
\* file is called parameters.yml
Basename(t) == "parameters.yml"

Procs == {1, 2}
\* the command line and a bulk loop run one invocation at a time
SeqProcs == {1}

RemoteInitFiles ==
    { MkFile(2, TRUE, Mp(<<Imports, <<"parameters", Mp(ParamsAB)>>, Framework>>),
             <<"644", "www-data", "www-data">>),
      MkFile(2, TRUE, Mp(<<<<"parameters", Mp(ParamsNested)>>, Imports>>),
             <<"600", "root", "wheel">>),
      MkFile(0, TRUE, Mp(<<Imports, Framework>>), <<"600", "root", "wheel">>),
      MkFile(0, FALSE, Null, <<"644", "www-data", "www-data">>),
      NoFile }

CustBFile ==
    MkFile(1, TRUE, Mp(<<<<"parameters", Mp(<<<<"secret", Sc("b-secret")>>>>)>>>>),
           <<"640", "custb", "www-data">>)

PipelineParams ==
    { <<<<"database_host", Sc("new-db.example.com")>>>>,
      <<<<"secret", Sc("abc")>>, <<"cache", Sc("redis")>>>> }

\* the (server_name, customer_name) pairs a caller passes: the configured
\* targets, an unknown customer, an unknown server
CallTargets == Targets \cup {<<"s1", "nobody">>, <<"ghost", "custA">>}

\* metadata of a file created by the process (temp file) or by the login user
TempMeta == <<"600", "app", "app">>
UploadMeta == <<"644", "deploy", "deploy">>

None == [have |-> FALSE, permissions |-> "", owner |-> "", group |-> ""]
NoArgs == [server |-> "", customer |-> "", params |-> <<>>]
NoGhost == [failed |-> "", restore |-> "none", got |-> NoFile, put |-> 0,
            edlog |-> <<>>]
NoLog == [ops |-> <<>>, connect |-> FALSE]
NoPath == [name |-> "", ts |-> -1]
NoPre == [files |-> <<>>, backups |-> {}, dirs |-> {}]

VARIABLES
    remoteFiles,      \* [Targets -> file]: the parameters.yml of each customer
    backupDirs,       \* servers on which the backup directory exists
    remoteBackups,    \* set of [server, name, ts, file]: files in the backup dirs
    tmpFiles,         \* sequence of local temporary files (NoFile once unlinked)
    ssh_connections,  \* SSHManager.ssh_connections: server -> "none" | "cached"
    now,              \* the last reading of the wall clock, in seconds
    calls,            \* number of top-level calls made so far
    pc,               \* per invocation: position in update_remote_parameters
    args,             \* per invocation: server_name, customer_name, new_parameters
    permissions,      \* per invocation: local `permissions`
    backup_path,      \* per invocation: local `backup_path`
    temp_path,        \* per invocation: local `temp_path` (index in tmpFiles, 0 = unset)
    ret,              \* per invocation: "none" | "true" | "false"
    opLog,            \* per invocation: remote operations attempted, in order
    gh,               \* per invocation: which step failed, outcome of restore
    pre,              \* per invocation: remote state when the call started
    localFile,        \* the file a local update_parameters call works on
    localBackups,     \* set of [ts, file]: backups next to localFile
    ed,               \* last local update_parameters call: inputs and result
    bulk,             \* the bulk call in progress: locals, results, pipeline runs made
    cn,               \* connection registry seen by threads: registry, connections, threads
    http              \* the web server: manager, request being handled, last response

pipeVars == <<remoteFiles, backupDirs, remoteBackups, tmpFiles, ssh_connections,
              pc, args, permissions, backup_path, temp_path, ret, opLog, gh, pre>>
edVars == <<localFile, localBackups, ed>>
webVars == <<cn, http>>
vars == <<remoteFiles, backupDirs, remoteBackups, tmpFiles, ssh_connections,
          now, calls, pc, args, permissions, backup_path, temp_path, ret, opLog,
          gh, pre, localFile, localBackups, ed, bulk, cn, http>>

NoEd == [pre |-> NoFile, params |-> <<>>, backup |-> FALSE, ret |-> "none",
         log |-> <<>>, o |-> AllOk, prevParams |-> <<>>, prevRet |-> "none"]

\* config["bulk_templates"]: template name -> parameters
bulk_templates ==
    << <<"rotate_secret", <<<<"secret", Sc("GENERATE_NEW")>>,
                             <<"api_key", Sc("GENERATE_NEW")>>>> >>,
       <<"cache", <<<<"secret", Sc("s3cr3t")>>, <<"cache", Sc("redis")>>>> >> >>

\* no bulk call made; drawn counts the calls of generate_secret; config is
\* self.config["bulk_templates"] as it is in memory; shared says whether the
\* local `parameters` of apply_bulk_template is the stored template itself
NoBulk == [pc |-> "idle", op |-> "none", name |-> "", value |-> Null, targets |-> <<>>,
           i |-> 0, parameters |-> <<>>, results |-> <<>>, error |-> FALSE,
           runs |-> <<>>, drawn |-> 0, config |-> bulk_templates, shared |-> FALSE]

\* the servers and threads of the thread-level view of the connection registry
ConnServers == {"s1", "s2"}
Threads == {1, 2}
\* the command line runs one thread
SeqThreads == {1}

NoThread == [pc |-> "idle", server |-> "", ssh |-> 0, cached |-> FALSE]

\* a server entry of ssh_config.yml as far as authentication goes: whether it
\* has `ssh_key`, whether it has `password`, whether the key file exists
Profiles ==
    {[ssh_key |-> k, password |-> w, key_exists |-> e] :
        k \in BOOLEAN, w \in BOOLEAN, e \in BOOLEAN}
BothProfile == [ssh_key |-> TRUE, password |-> TRUE, key_exists |-> TRUE]
NoOffer == [by |-> "", params |-> {}, order |-> <<>>]

\* self.ssh_connections = {} (l.38): reg maps a server to the connection cached
\* for it (0: none); srv[i] is the server connection i was made to; live holds
\* the connections whose transport is active; closed those close() was called on
\* failed holds the client objects whose connect() raised (numbered -1, -2, ...),
\* each with the server it was made for;
\* profile is the credentials part of the server entries of the configuration;
\* offered is what the last connect() was given to authenticate with, and by
\* which method of SSHManager
NoConn == [reg |-> [s \in ConnServers |-> 0], srv |-> <<>>, live |-> {}, closed |-> {},
           lastClose |-> {}, th |-> [t \in Threads |-> NoThread], failed |-> {},
           profile |-> BothProfile, offered |-> NoOffer]

\* a request body: absent, or a JSON object (a dict)
NoBody == [kind |-> "absent", data |-> <<>>]
NoReq == [path |-> "", method |-> "", id |-> <<>>, body |-> NoBody]

\* a response: status code, whether the body is JSON, whether the JSON object
\* has the keys `error` and `success`, and the payload fields of the endpoints
NoResp == [status |-> 0, json |-> FALSE, error |-> FALSE, success |-> FALSE,
           parameters |-> Null, results |-> <<>>, backup_path |-> "", secret |-> <<>>,
           length |-> 0]

\* ssh_manager = None (web_server.py l.37): mgr says whether the global holds a
\* manager; init is what init_ssh_manager returned; contact records whether the
\* handler reached a call that contacts a server
NoHttp == [mgr |-> FALSE, init |-> "none", pc |-> "idle", req |-> NoReq,
           resp |-> NoResp, contact |-> FALSE]

RemoteFile(t) == IF t \in DOMAIN remoteFiles THEN remoteFiles[t] ELSE NoFile
Target(p) == <<args[p].server, args[p].customer>>

InitPipe ==
    /\ remoteBackups = {}
    /\ tmpFiles = <<>>
    /\ ssh_connections = [s \in ConfigServers |-> "none"]
    /\ pc = [p \in Procs |-> "idle"]
    /\ args = [p \in Procs |-> NoArgs]
    /\ permissions = [p \in Procs |-> None]
    /\ backup_path = [p \in Procs |-> NoPath]
    /\ temp_path = [p \in Procs |-> 0]
    /\ ret = [p \in Procs |-> "none"]
    /\ opLog = [p \in Procs |-> NoLog]
    /\ gh = [p \in Procs |-> NoGhost]
    /\ pre = [p \in Procs |-> NoPre]

InitEd ==
    /\ localBackups = {}
    /\ ed = NoEd
    /\ bulk = NoBulk
    /\ cn = NoConn
    /\ http = NoHttp

Init ==
    /\ \E f \in RemoteInitFiles :
         remoteFiles = [t \in Targets |-> IF t[2] = "custA" THEN f ELSE CustBFile]
    /\ backupDirs = {}
    /\ InitPipe
    /\ localFile = NoFile
    /\ InitEd
    /\ now = 0
    /\ calls = 0

InitEditor ==
    /\ remoteFiles = [t \in Targets |-> NoFile]
    /\ backupDirs = {}
    /\ InitPipe
    /\ localFile \in InitFiles \cup {NoFile}
    /\ InitEd
    /\ now = 0
    /\ calls = 0

\* datetime.now(): the clock never runs backwards
ClockReadings == now..MaxClock

(***************************************************************************)
(* Local update: parameter_updater.py main(), --file/--param               *)
(***************************************************************************)
LocalUpdate ==
    /\ calls < MaxEdits
    /\ \E np \in NewParams, b \in BOOLEAN, o \in OneFailure, t \in ClockReadings :
         LET r == update_parameters(localFile, np, b, o) IN
         /\ now' = t
         /\ localFile' = r.file
         /\ localBackups' =
              IF r.backup.exists
              THEN {x \in localBackups : x.ts # t} \cup {[ts |-> t, file |-> r.backup]}
              ELSE localBackups
         /\ ed' = [pre |-> localFile, params |-> np, backup |-> b,
                   ret |-> IF r.ret THEN "true" ELSE "false", log |-> r.log, o |-> o,
                   prevParams |-> ed.params, prevRet |-> ed.ret]
    /\ calls' = calls + 1
    /\ UNCHANGED <<pipeVars, bulk, webVars>>

NextEditor == LocalUpdate
SpecEditor == InitEditor /\ [][NextEditor]_vars

(***************************************************************************)
(* SSHManager (ssh_manager.py)                                             *)
(***************************************************************************)
\* mutant of Configured: the customer is not looked up
Configured_server_only(s, c) == s \in ConfigServers

\* config["servers"][server_name]["customers"][customer_name]["parameters_path"]
Configured(s, c) == s \in ConfigServers /\ c \in ConfigCustomers(s)

\* get_ssh_connection(server_name) (l.54-102).  c is what the environment
\* answers: "active" - the cached connection's transport reports itself
\* active (possible only when one is cached) and it is returned as it is;
\* "ok" - there is none or it is not active, connect() succeeds and the new
\* connection is cached; "fail" - connect() raises and nothing is cached.
get_ssh_connection(s, c) ==
    IF ssh_connections[s] = "cached" /\ c = "active"
    THEN [raised |-> FALSE, conns |-> ssh_connections, tried |-> FALSE]
    ELSE IF c = "ok"
    THEN [raised |-> FALSE, conns |-> [ssh_connections EXCEPT ![s] = "cached"],
          tried |-> TRUE]
    ELSE [raised |-> TRUE, conns |-> ssh_connections, tried |-> TRUE]

\* the invocation's record of remote contact: the commands and transfers it
\* attempted, in order, and whether it tried to open a connection
Logged(p, g, op) ==
    [opLog EXCEPT ![p] = [ops |-> @.ops \o op, connect |-> @.connect \/ g.tried]]

ConnOutcomes(s) ==
    IF ssh_connections[s] = "cached" THEN {"active", "ok", "fail"} ELSE {"ok", "fail"}

\* outcome of one remote command: exit status 0, another exit status, or an
\* exception out of exec_command
ExecOutcomes == {"zero", "nonzero", "raise"}

\* `except Exception: return False` of update_remote_parameters (l.298-300),
\* and every `return False` inside it
ReturnFalse(p, why) ==
    /\ pc' = [pc EXCEPT ![p] = "done"]
    /\ ret' = [ret EXCEPT ![p] = "false"]
    /\ gh' = [gh EXCEPT ![p].failed = why]

\* names of unlinked files at the end of the directory listing are forgotten
RECURSIVE Trim(_)
Trim(files) ==
    IF files # <<>> /\ ~files[Len(files)].exists
    THEN Trim(SubSeq(files, 1, Len(files) - 1))
    ELSE files

\* mutant of unlink: the file is left where it is
unlink_keep(files, i) == files

\* os.unlink(temp_path)
unlink(files, i) == Trim([files EXCEPT ![i] = NoFile])

\* update_remote_parameters is called
Call(p) ==
    /\ pc[p] = "idle"
    /\ calls < MaxCalls
    /\ \E t \in CallTargets, np \in PipelineParams :
         args' = [args EXCEPT ![p] = [server |-> t[1], customer |-> t[2], params |-> np]]
    /\ calls' = calls + 1
    /\ pc' = [pc EXCEPT ![p] = "resolve"]
    /\ pre' = [pre EXCEPT ![p] = [files |-> remoteFiles, backups |-> remoteBackups,
                                   dirs |-> backupDirs]]
    /\ UNCHANGED <<remoteFiles, backupDirs, remoteBackups, tmpFiles, ssh_connections,
                   now, permissions, backup_path, temp_path, ret, opLog, gh, edVars, bulk, webVars>>

\* l.246-248: the three configuration lookups; a KeyError ends in l.298-300
Resolve(p) ==
    /\ pc[p] = "resolve"
    /\ IF Configured(args[p].server, args[p].customer)
       THEN /\ pc' = [pc EXCEPT ![p] = "stat"]
            /\ UNCHANGED <<ret, gh>>
       ELSE ReturnFalse(p, "resolve")
    /\ UNCHANGED <<remoteFiles, backupDirs, remoteBackups, tmpFiles, ssh_connections,
                   now, calls, args, permissions, backup_path, temp_path, opLog, pre,
                   edVars, bulk, webVars>>

\* get_file_permissions (l.167-182): stat -c '%a %U %G'.  Exit status 0 with
\* three fields gives the snapshot, anything else None; an exception leaves
\* update_remote_parameters through l.298-300.
SSHManager_get_file_permissions(f, x) ==
    IF x = "zero" /\ f.exists
    THEN [have |-> TRUE, permissions |-> f.mode, owner |-> f.owner, group |-> f.group]
    ELSE None

Stat(p) ==
    /\ pc[p] = "stat"
    /\ \E c \in ConnOutcomes(args[p].server), x \in ExecOutcomes :
         LET g == get_ssh_connection(args[p].server, c) IN
         /\ ssh_connections' = g.conns
         /\ IF g.raised
            THEN /\ ReturnFalse(p, "stat_raise")
                 /\ opLog' = Logged(p, g, <<>>)
                 /\ UNCHANGED permissions
            ELSE /\ opLog' = Logged(p, g, <<"stat">>)
                 /\ IF x = "raise"
                    THEN ReturnFalse(p, "stat_raise") /\ UNCHANGED permissions
                    ELSE /\ permissions' = [permissions EXCEPT ![p] =
                                SSHManager_get_file_permissions(RemoteFile(Target(p)), x)]
                         /\ pc' = [pc EXCEPT ![p] = "mkdir"]
                         /\ UNCHANGED <<ret, gh>>
    /\ UNCHANGED <<remoteFiles, backupDirs, remoteBackups, tmpFiles, now, calls, args,
                   backup_path, temp_path, pre, edVars, bulk, webVars>>

\* create_remote_backup, first half (l.219-228): the timestamp is taken, then
\* mkdir -p runs; its exit status is not looked at
Mkdir(p) ==
    /\ pc[p] = "mkdir"
    /\ \E c \in ConnOutcomes(args[p].server), x \in ExecOutcomes, t \in ClockReadings :
         LET g == get_ssh_connection(args[p].server, c) IN
         /\ now' = t
         /\ ssh_connections' = g.conns
         /\ IF g.raised
            THEN /\ ReturnFalse(p, "backup_raise")
                 /\ opLog' = Logged(p, g, <<>>)
                 /\ UNCHANGED <<backupDirs, backup_path>>
            ELSE /\ opLog' = Logged(p, g, <<"mkdir">>)
                 /\ IF x = "raise"
                    THEN ReturnFalse(p, "backup_raise") /\ UNCHANGED <<backupDirs, backup_path>>
                    ELSE /\ backupDirs' = IF x = "zero"
                                          THEN backupDirs \cup {args[p].server}
                                          ELSE backupDirs
                         /\ backup_path' = [backup_path EXCEPT ![p] =
                                [name |-> Basename(Target(p)), ts |-> t]]
                         /\ pc' = [pc EXCEPT ![p] = "cp"]
                         /\ UNCHANGED <<ret, gh>>
    /\ UNCHANGED <<remoteFiles, remoteBackups, tmpFiles, calls, args,
                   permissions, temp_path, pre, edVars, bulk, webVars>>

\* mutant of cp_backup: the backup is made with mv, the original is gone
mv_backup(files, t) == [files EXCEPT ![t] = NoFile]

\* what cp '<file_path>' '<backup_path>' does to the customers' files: nothing
cp_backup(files, t) == files

\* mutant of write_backup: older backups of the same file name are removed
write_backup_rotate(backups, s, path, src) ==
    {b \in backups : ~(b.server = s /\ b.name = path.name)}
        \cup {[server |-> s, name |-> path.name, ts |-> path.ts, file |-> src]}

\* what cp '<file_path>' '<backup_path>' does to the backup directory of
\* server s: the file at backup_path is created or overwritten
write_backup(backups, s, path, src) ==
    {b \in backups : ~(b.server = s /\ b.name = path.name /\ b.ts = path.ts)}
        \cup {[server |-> s, name |-> path.name, ts |-> path.ts, file |-> src]}

\* mutant of AfterBackup: no backup, no update
AfterBackup_strict(path) == IF path = NoPath THEN "return_false" ELSE "mktemp"

\* l.262-264: backup_path is not looked at, the download comes next
AfterBackup(path) == "mktemp"

\* create_remote_backup, second half (l.231-239): cp; exit status 0 gives the
\* backup path, anything else None
Cp(p) ==
    /\ pc[p] = "cp"
    /\ \E c \in ConnOutcomes(args[p].server), x \in ExecOutcomes :
         LET g == get_ssh_connection(args[p].server, c)
             s == args[p].server
             src == RemoteFile(Target(p))
             worked == x = "zero" /\ src.exists /\ s \in backupDirs
             path == IF worked THEN backup_path[p] ELSE NoPath
         IN
         /\ ssh_connections' = g.conns
         /\ IF g.raised
            THEN /\ ReturnFalse(p, "backup_raise")
                 /\ opLog' = Logged(p, g, <<>>)
                 /\ backup_path' = [backup_path EXCEPT ![p] = NoPath]
                 /\ UNCHANGED <<remoteBackups, remoteFiles>>
            ELSE /\ opLog' = Logged(p, g, <<"cp">>)
                 /\ IF x = "raise"
                    THEN /\ ReturnFalse(p, "backup_raise")
                         /\ backup_path' = [backup_path EXCEPT ![p] = NoPath]
                         /\ UNCHANGED <<remoteBackups, remoteFiles>>
                    ELSE /\ backup_path' = [backup_path EXCEPT ![p] = path]
                         /\ remoteBackups' =
                              IF worked THEN write_backup(remoteBackups, s, path, src)
                              ELSE remoteBackups
                         /\ remoteFiles' = IF worked THEN cp_backup(remoteFiles, Target(p))
                                           ELSE remoteFiles
                         /\ IF AfterBackup(path) = "mktemp"
                            THEN pc' = [pc EXCEPT ![p] = "mktemp"] /\ UNCHANGED <<ret, gh>>
                            ELSE ReturnFalse(p, "backup")
    /\ UNCHANGED <<backupDirs, tmpFiles, now, calls, args, permissions, temp_path,
                   pre, edVars, bulk, webVars>>

\* l.265-268: tempfile.NamedTemporaryFile(delete=False) creates an empty file
\* under a fresh name
MkTemp(p) ==
    /\ pc[p] = "mktemp"
    /\ tmpFiles' = Append(tmpFiles, MkFile(0, TRUE, Null, TempMeta))
    /\ temp_path' = [temp_path EXCEPT ![p] = Len(tmpFiles) + 1]
    /\ pc' = [pc EXCEPT ![p] = "download"]
    /\ UNCHANGED <<remoteFiles, backupDirs, remoteBackups, ssh_connections, now, calls,
                   args, permissions, backup_path, ret, opLog, gh, pre, edVars, bulk, webVars>>

\* mutant of scp_get: the transfer reports success but the local file stays empty
scp_get_empty(tf, rf) == tf

\* scp.get(remote_path, local_path): the local file gets the remote content
scp_get(tf, rf) == WithContent(tf, rf)

\* mutant of scp_put: the transfer reports success and writes nothing
scp_put_nothing(rf, tf, m) == rf

\* scp.put(local_path, remote_path): the remote file gets the local content;
\* m is the mode and owner the server leaves the file with
scp_put(rf, tf, m) ==
    [WithContent(rf, tf) EXCEPT !.exists = TRUE, !.mode = m[1], !.owner = m[2],
                                !.group = m[3]]

\* a transfer that broke off: nothing written yet, or a truncated file
PartialPut(rf) ==
    {rf, [rf EXCEPT !.exists = TRUE, !.comments = 0, !.ok = FALSE, !.doc = Null]}

\* download_file (l.135-151) as called in l.270-271.  get_ssh_connection is
\* outside the try of download_file, so a failed connect leaves
\* update_remote_parameters through l.298-300; a failed transfer makes
\* download_file return False and l.271 returns False.  Neither path unlinks.
Download(p) ==
    /\ pc[p] = "download"
    /\ \E c \in ConnOutcomes(args[p].server), x \in {"ok", "fail"} :
         LET g == get_ssh_connection(args[p].server, c)
             rf == RemoteFile(Target(p))
         IN
         /\ ssh_connections' = g.conns
         /\ IF g.raised
            THEN /\ ReturnFalse(p, "download_raise")
                 /\ opLog' = Logged(p, g, <<>>)
                 /\ UNCHANGED tmpFiles
            ELSE /\ opLog' = Logged(p, g, <<"get">>)
                 /\ IF x = "ok" /\ rf.exists
                    THEN /\ tmpFiles' = [tmpFiles EXCEPT ![temp_path[p]] = scp_get(@, rf)]
                         /\ pc' = [pc EXCEPT ![p] = "edit"]
                         /\ gh' = [gh EXCEPT ![p].got = rf]
                         /\ UNCHANGED ret
                    ELSE /\ ReturnFalse(p, "download")
                         /\ UNCHANGED tmpFiles
    /\ UNCHANGED <<remoteFiles, backupDirs, remoteBackups, now, calls, args,
                   permissions, backup_path, temp_path, pre, edVars, bulk, webVars>>

\* mutant of AfterEdit: the result of the edit is not looked at
AfterEdit_ignore(success) == "upload"

\* l.277-279: `if not success: os.unlink(temp_path); return False`
AfterEdit(success) == IF success THEN "upload" ELSE "return_false"

\* l.274-279: self.updater.update_parameters(temp_path, new_parameters,
\* create_backup=False)
Edit(p) ==
    /\ pc[p] = "edit"
    /\ \E o \in {q \in OneFailure : q.copy = "ok"} :
         LET r == update_parameters(tmpFiles[temp_path[p]], args[p].params, FALSE, o) IN
         IF AfterEdit(r.ret) = "upload"
         THEN /\ tmpFiles' = [tmpFiles EXCEPT ![temp_path[p]] = r.file]
              /\ pc' = [pc EXCEPT ![p] = "upload"]
              /\ gh' = [gh EXCEPT ![p].failed = IF r.ret THEN "" ELSE "edit",
                                   ![p].edlog = r.log]
              /\ UNCHANGED ret
         ELSE /\ tmpFiles' = unlink(tmpFiles, temp_path[p])
              /\ pc' = [pc EXCEPT ![p] = "done"]
              /\ ret' = [ret EXCEPT ![p] = "false"]
              /\ gh' = [gh EXCEPT ![p].failed = "edit", ![p].edlog = r.log]
    /\ UNCHANGED <<remoteFiles, backupDirs, remoteBackups, ssh_connections, now, calls,
                   args, permissions, backup_path, temp_path, opLog, pre, edVars, bulk, webVars>>

\* mutant of RestoreWanted: restore is attempted without a snapshot
RestoreWanted_always(perm) == TRUE

\* l.287: `if permissions:`
RestoreWanted(perm) == perm.have

\* upload_file (l.153-165) as called in l.282-284, then l.287
Upload(p) ==
    /\ pc[p] = "upload"
    /\ \E c \in ConnOutcomes(args[p].server), x \in {"ok", "fail"} :
         LET g == get_ssh_connection(args[p].server, c)
             rf == RemoteFile(Target(p))
             tf == tmpFiles[temp_path[p]]
         IN
         /\ ssh_connections' = g.conns
         /\ IF g.raised
            THEN /\ ReturnFalse(p, "upload_raise")
                 /\ opLog' = Logged(p, g, <<>>)
                 /\ UNCHANGED <<tmpFiles, remoteFiles>>
            ELSE /\ opLog' = Logged(p, g, <<"put">>)
                 /\ IF x = "ok"
                    THEN /\ \E m \in (IF rf.exists THEN {Meta(rf)} ELSE {}) \cup {UploadMeta} :
                              remoteFiles' = [remoteFiles EXCEPT ![Target(p)] =
                                                 scp_put(rf, tf, m)]
                         /\ pc' = [pc EXCEPT ![p] =
                                IF RestoreWanted(permissions[p]) THEN "chown" ELSE "cleanup"]
                         /\ gh' = [gh EXCEPT ![p].put =
                                      1 + Cardinality({q \in Procs : gh[q].put > 0})]
                         /\ UNCHANGED <<ret, tmpFiles>>
                    ELSE /\ \E f \in PartialPut(rf) :
                              remoteFiles' = [remoteFiles EXCEPT ![Target(p)] = f]
                         /\ tmpFiles' = unlink(tmpFiles, temp_path[p])
                         /\ ReturnFalse(p, "upload")
    /\ UNCHANGED <<backupDirs, remoteBackups, now, calls, args, permissions,
                   backup_path, temp_path, pre, edVars, bulk, webVars>>

\* mutant of chown: the group of the snapshot is not applied
chown_owner_only(rf, perm) == [rf EXCEPT !.owner = perm.owner]

\* l.190-192: chown {owner}:{group} {remote_path}
chown(rf, perm) == [rf EXCEPT !.owner = perm.owner, !.group = perm.group]

\* restore_file_permissions, first half (l.190-198): chown owner:group; a
\* non-zero exit status is a warning, an exception ends the restore (l.213-215)
Chown(p) ==
    /\ pc[p] = "chown"
    /\ \E c \in ConnOutcomes(args[p].server), x \in ExecOutcomes :
         LET g == get_ssh_connection(args[p].server, c)
             rf == RemoteFile(Target(p))
         IN
         /\ ssh_connections' = g.conns
         /\ IF g.raised
            THEN /\ opLog' = Logged(p, g, <<>>)
                 /\ gh' = [gh EXCEPT ![p].restore = "failed"]
                 /\ pc' = [pc EXCEPT ![p] = "cleanup"]
                 /\ UNCHANGED remoteFiles
            ELSE /\ opLog' = Logged(p, g, <<"chown">>)
                 /\ IF x = "raise"
                    THEN /\ gh' = [gh EXCEPT ![p].restore = "failed"]
                         /\ pc' = [pc EXCEPT ![p] = "cleanup"]
                         /\ UNCHANGED remoteFiles
                    ELSE /\ pc' = [pc EXCEPT ![p] = "chmod"]
                         /\ IF x = "zero" /\ rf.exists
                            THEN /\ remoteFiles' = [remoteFiles EXCEPT ![Target(p)] =
                                        chown(rf, permissions[p])]
                                 /\ gh' = [gh EXCEPT ![p].restore = "chown_ok"]
                            ELSE /\ gh' = [gh EXCEPT ![p].restore = "chown_failed"]
                                 /\ UNCHANGED remoteFiles
    /\ UNCHANGED <<backupDirs, remoteBackups, tmpFiles, now, calls, args, permissions,
                   backup_path, temp_path, ret, pre, edVars, bulk, webVars>>

\* mutant of AfterRestore: a failed restore fails the update
AfterRestore_strict(restored) == IF restored THEN "cleanup" ELSE "return_false"

\* l.288-291: the result of restore_file_permissions is dropped
AfterRestore(restored) == "cleanup"

\* restore_file_permissions, second half (l.201-215): chmod; a non-zero exit
\* status or an exception makes the restore return False
Chmod(p) ==
    /\ pc[p] = "chmod"
    /\ \E c \in ConnOutcomes(args[p].server), x \in ExecOutcomes :
         LET g == get_ssh_connection(args[p].server, c)
             rf == RemoteFile(Target(p))
             worked == ~g.raised /\ x = "zero" /\ rf.exists
         IN
         /\ ssh_connections' = g.conns
         /\ opLog' = Logged(p, g, IF g.raised THEN <<>> ELSE <<"chmod">>)
         /\ remoteFiles' = IF worked
                           THEN [remoteFiles EXCEPT ![Target(p)] =
                                    [rf EXCEPT !.mode = permissions[p].permissions]]
                           ELSE remoteFiles
         /\ IF AfterRestore(worked) = "cleanup"
            THEN /\ pc' = [pc EXCEPT ![p] = "cleanup"]
                 /\ gh' = [gh EXCEPT ![p].restore =
                              IF worked /\ gh[p].restore = "chown_ok" THEN "ok" ELSE "failed"]
                 /\ UNCHANGED <<ret, tmpFiles>>
            ELSE /\ pc' = [pc EXCEPT ![p] = "done"]
                 /\ ret' = [ret EXCEPT ![p] = "false"]
                 /\ gh' = [gh EXCEPT ![p].restore = "failed", ![p].failed = "restore"]
                 /\ tmpFiles' = unlink(tmpFiles, temp_path[p])
    /\ UNCHANGED <<backupDirs, remoteBackups, now, calls, args, permissions,
                   backup_path, temp_path, pre, edVars, bulk, webVars>>

\* l.291-296: os.unlink(temp_path); return True
Cleanup(p) ==
    /\ pc[p] = "cleanup"
    /\ tmpFiles' = unlink(tmpFiles, temp_path[p])
    /\ pc' = [pc EXCEPT ![p] = "done"]
    /\ ret' = [ret EXCEPT ![p] = "true"]
    /\ UNCHANGED <<remoteFiles, backupDirs, remoteBackups, ssh_connections, now, calls,
                   args, permissions, backup_path, temp_path, opLog, gh, pre, edVars, bulk, webVars>>

\* the caller has the result and the locals of the call are gone; the next
\* call can be made
Return(p) ==
    /\ pc[p] = "done"
    /\ pc' = [pc EXCEPT ![p] = "idle"]
    /\ args' = [args EXCEPT ![p] = NoArgs]
    /\ permissions' = [permissions EXCEPT ![p] = None]
    /\ backup_path' = [backup_path EXCEPT ![p] = NoPath]
    /\ temp_path' = [temp_path EXCEPT ![p] = 0]
    /\ ret' = [ret EXCEPT ![p] = "none"]
    /\ opLog' = [opLog EXCEPT ![p] = NoLog]
    /\ gh' = [gh EXCEPT ![p] = NoGhost]
    /\ pre' = [pre EXCEPT ![p] = NoPre]
    /\ UNCHANGED <<remoteFiles, backupDirs, remoteBackups, tmpFiles, ssh_connections,
                   now, calls, edVars, bulk, webVars>>

update_remote_parameters(p) ==
    \/ Call(p)
    \/ Resolve(p)
    \/ Stat(p)
    \/ Mkdir(p)
    \/ Cp(p)
    \/ MkTemp(p)
    \/ Download(p)
    \/ Edit(p)
    \/ Upload(p)
    \/ Chown(p)
    \/ Chmod(p)
    \/ Cleanup(p)
    \/ Return(p)

Next ==
    \/ \E p \in SeqProcs : update_remote_parameters(p)

Spec == Init /\ [][Next]_vars

(***************************************************************************)
(* Bulk operations: bulk_update_parameter (l.319-348), generate_secret     *)
(* (l.350-353), apply_bulk_template (l.355-389)                            *)
(*                                                                         *)
(* A target string is a sequence of tokens, ":" being a token of its own:  *)
(* "s1:custA" is <<"s1", ":", "custA">>.                                   *)
(***************************************************************************)
RECURSIVE Join(_)
Join(toks) == IF toks = <<>> THEN "" ELSE Head(toks) \o Join(Tail(toks))

\* mutant of HasColon: every target is taken as well-formed
HasColon_always(target) == TRUE

\* `":" in target`
HasColon(target) == \E j \in 1..Len(target) : target[j] = ":"

\* target.split(":", 1): the text before the first colon and all the text after it
Split(target) ==
    IF \E j \in 1..Len(target) : target[j] = ":"
    THEN LET j == CHOOSE j \in 1..Len(target) :
                    /\ target[j] = ":"
                    /\ \A k \in 1..(j - 1) : target[k] # ":"
         IN <<Join(SubSeq(target, 1, j - 1)), Join(SubSeq(target, j + 1, Len(target)))>>
    ELSE <<Join(target), "">>

TemplateNames == {"rotate_secret", "cache", "missing"}

\* (parameter_name, parameter_value) of a bulk_update_parameter call
BulkPairs ==
    { <<"secret", Sc("GENERATE_NEW")>>, <<"secret", Sc("s3cr3t")>>,
      <<"api_key", Sc("GENERATE_NEW")>> }

TA == <<"s1", ":", "custA">>
TB == <<"s1", ":", "custB">>

\* the target lists of a bulk call: empty, one target without a colon, two
\* targets around one without a colon, one target twice, a target with a
\* second colon before an unknown customer
BulkTargetLists ==
    { <<>>, <<<<"custA">>>>, <<TA, <<"s1custB">>, TB>>, <<TA, TA>>,
      <<<<"s1", ":", "custA", ":", "x">>, <<"s1", ":", "nobody">>>> }

\* mutant of generate_secret: the generator returns the same value at every call
generate_secret_repeat(drawn) == Sc("generated-1")

\* generate_secret (l.350-353): 32 characters drawn with secrets.choice from
\* an alphabet of 70; a value is taken as never drawn twice
generate_secret(drawn) == Sc("generated-" \o ToString(drawn + 1))

\* mutant of IsSentinel: the key is not looked at
IsSentinel_any_key(key, value) == value = Sc("GENERATE_NEW")

\* l.326 and l.380: `value == "GENERATE_NEW" and key == "secret"`
IsSentinel(key, value) == value = Sc("GENERATE_NEW") /\ key = "secret"

\* l.378-381: target_params = parameters.copy(), the sentinel under `secret`
\* replaced by a new secret
Expand(parameters, drawn) ==
    [j \in 1..Len(parameters) |->
        IF IsSentinel(parameters[j][1], parameters[j][2])
        THEN <<parameters[j][1], generate_secret(drawn)>>
        ELSE parameters[j]]

Draws(parameters) ==
    IF \E j \in 1..Len(parameters) : IsSentinel(parameters[j][1], parameters[j][2])
    THEN 1 ELSE 0

\* mutant of dict_copy: no copy is made, the name is bound to the same dict
dict_copy_alias(d) == [content |-> d, shared |-> TRUE]

\* d.copy() (l.364, l.378): a new dict with the entries of d; what is assigned
\* to a key of the copy is not seen through d
dict_copy(d) == [content |-> d, shared |-> FALSE]

\* mutant of LoopNext: a target that failed is tried again
LoopNext_retry(b, r) == IF r = "true" THEN b.i + 1 ELSE b.i

\* mutant of LoopNext: the loop ends at the first target that failed
LoopNext_abort(b, r) == IF r = "true" THEN b.i + 1 ELSE Len(b.targets) + 1

\* `for target in targets`: the next iteration, whatever the result was
LoopNext(b, r) == b.i + 1

\* bulk_update_parameter(targets, parameter_name, parameter_value), l.322:
\* results = {}, before the loop over the targets
bulk_update_start(b, ts, kv) ==
    [b EXCEPT !.pc = "loop", !.op = "bulk_update", !.name = kv[1], !.value = kv[2],
              !.targets = ts, !.i = 1, !.parameters = <<kv>>]

\* a call of bulk_update_parameter
bulk_update_parameter ==
    /\ bulk.pc = "idle"
    /\ pc[1] = "idle"
    /\ \E ts \in BulkTargetLists, kv \in BulkPairs :
         bulk' = bulk_update_start(bulk, ts, kv)
    /\ UNCHANGED <<pipeVars, now, calls, edVars, webVars>>

\* apply_bulk_template(template_name, targets), l.359-364 and l.372: an
\* unknown template is logged and {} is returned
apply_bulk_template ==
    /\ bulk.pc = "idle"
    /\ pc[1] = "idle"
    /\ \E ts \in BulkTargetLists, tn \in TemplateNames :
         bulk' = IF ~HasKey(bulk.config, tn)
                 THEN [bulk EXCEPT !.pc = "done", !.op = "template", !.name = tn,
                                   !.targets = ts, !.results = <<>>]
                 ELSE LET c == dict_copy(DictGet(bulk.config, tn)) IN
                      [bulk EXCEPT !.pc = "loop", !.op = "template", !.name = tn,
                                   !.targets = ts, !.i = 1,
                                   !.parameters = c.content, !.shared = c.shared]
    /\ UNCHANGED <<pipeVars, now, calls, edVars, webVars>>

\* one iteration of the target loop (l.328-336, l.339-346, l.373-387) up to
\* the call of update_remote_parameters
BulkTarget ==
    /\ bulk.pc = "loop"
    /\ bulk.i <= Len(bulk.targets)
    /\ LET target == bulk.targets[bulk.i] IN
       IF HasColon(target)
       THEN LET sc == Split(target)
                \* l.378: target_params = parameters.copy(); l.333, l.343: a new
                \* dict for every target
                c == IF bulk.op = "template" THEN dict_copy(bulk.parameters)
                     ELSE [content |-> bulk.parameters, shared |-> FALSE]
                np == Expand(c.content, bulk.drawn)
            IN
            /\ bulk' = [bulk EXCEPT !.pc = "run",
                                    !.drawn = @ + Draws(bulk.parameters),
                                    !.parameters = IF c.shared THEN np ELSE @,
                                    !.config = IF c.shared /\ bulk.shared
                                               THEN DictSet(@, bulk.name, np) ELSE @,
                                    !.runs = Append(@, [i |-> bulk.i, server |-> sc[1],
                                                        customer |-> sc[2], params |-> np,
                                                        ret |-> "none"])]
            /\ args' = [args EXCEPT ![1] = [server |-> sc[1], customer |-> sc[2],
                                            params |-> np]]
            /\ pc' = [pc EXCEPT ![1] = "resolve"]
            /\ pre' = [pre EXCEPT ![1] = [files |-> remoteFiles, backups |-> remoteBackups,
                                          dirs |-> backupDirs]]
       ELSE /\ bulk' = [bulk EXCEPT !.results = DictSet(@, target, "false"),
                                    !.i = LoopNext(bulk, "false")]
            /\ UNCHANGED <<args, pc, pre>>
    /\ UNCHANGED <<remoteFiles, backupDirs, remoteBackups, tmpFiles, ssh_connections,
                   now, calls, permissions, backup_path, temp_path, ret, opLog, gh,
                   edVars, webVars>>

\* results[target] = self.update_remote_parameters(...): the call has returned
BulkResult ==
    /\ bulk.pc = "run"
    /\ pc[1] = "done"
    /\ bulk' = [bulk EXCEPT !.pc = "loop",
                            !.results = DictSet(@, bulk.targets[bulk.i], ret[1]),
                            !.runs[Len(bulk.runs)].ret = ret[1],
                            !.i = LoopNext(bulk, ret[1])]
    /\ pc' = [pc EXCEPT ![1] = "idle"]
    /\ args' = [args EXCEPT ![1] = NoArgs]
    /\ permissions' = [permissions EXCEPT ![1] = None]
    /\ backup_path' = [backup_path EXCEPT ![1] = NoPath]
    /\ temp_path' = [temp_path EXCEPT ![1] = 0]
    /\ ret' = [ret EXCEPT ![1] = "none"]
    /\ opLog' = [opLog EXCEPT ![1] = NoLog]
    /\ gh' = [gh EXCEPT ![1] = NoGhost]
    /\ pre' = [pre EXCEPT ![1] = NoPre]
    /\ UNCHANGED <<remoteFiles, backupDirs, remoteBackups, tmpFiles, ssh_connections,
                   now, calls, edVars, webVars>>

\* l.348, l.389: return results
BulkReturn ==
    /\ bulk.pc = "loop"
    /\ bulk.i > Len(bulk.targets)
    /\ bulk' = [bulk EXCEPT !.pc = "done"]
    /\ UNCHANGED <<pipeVars, now, calls, edVars, webVars>>

\* the steps of update_remote_parameters between its call and its return
PipelineStep(p) ==
    \/ Resolve(p)
    \/ Stat(p)
    \/ Mkdir(p)
    \/ Cp(p)
    \/ MkTemp(p)
    \/ Download(p)
    \/ Edit(p)
    \/ Upload(p)
    \/ Chown(p)
    \/ Chmod(p)
    \/ Cleanup(p)

InitBulk ==
    /\ remoteFiles = [t \in Targets |-> IF t[2] = "custA"
                                        THEN MkFile(2, TRUE,
                                                 Mp(<<Imports, <<"parameters", Mp(ParamsAB)>>,
                                                      Framework>>),
                                                 <<"644", "www-data", "www-data">>)
                                        ELSE CustBFile]
    /\ backupDirs = {}
    /\ InitPipe
    /\ localFile = NoFile
    /\ InitEd
    /\ now = 0
    /\ calls = 0

NextBulk ==
    \/ bulk_update_parameter
    \/ apply_bulk_template
    \/ BulkTarget
    \/ BulkResult
    \/ BulkReturn
    \/ PipelineStep(1)

SpecBulk == InitBulk /\ [][NextBulk]_vars

(***************************************************************************)
(* The connection registry as threads see it: get_ssh_connection (l.54-102) *)
(* step by step, the remote operation made on the connection it returns    *)
(* (l.118-124, l.139-147, l.155-161), close_all_connections (l.104-112).    *)
(* The web server runs one thread per request (web_server.py l.485).       *)
(***************************************************************************)
\* execute_remote_command, download_file or upload_file is called for server
\* s and enters get_ssh_connection (l.118, l.139, l.155)
OpStart(t) ==
    /\ cn.th[t].pc = "idle"
    /\ \E s \in ConnServers :
         cn' = [cn EXCEPT !.th[t] = [NoThread EXCEPT !.pc = "lookup", !.server = s]]

\* mutant of CachedUsable: the cache is not looked at
CachedUsable_never(c, s) == FALSE

\* l.56-61: server_name in self.ssh_connections, and its transport is active
CachedUsable(c, s) == c.reg[s] # 0 /\ c.reg[s] \in c.live

\* l.56-63: the cached connection is returned, or a new one is to be made
Lookup(t) ==
    /\ cn.th[t].pc = "lookup"
    /\ cn' = IF CachedUsable(cn, cn.th[t].server)
             THEN [cn EXCEPT !.th[t].pc = "use", !.th[t].ssh = cn.reg[cn.th[t].server],
                             !.th[t].cached = TRUE]
             ELSE [cn EXCEPT !.th[t].pc = "connect"]

\* l.72-89: the authentication part of connect_params.  key_filename is set
\* when the entry has ssh_key and the file exists, password when the entry has
\* password; the two are independent of each other.
connect_params(pr) ==
    (IF pr.ssh_key /\ pr.key_exists THEN {"key_filename"} ELSE {})
    \cup (IF pr.password THEN {"password"} ELSE {})

\* test_connection l.450-456: password if the entry has one, and only
\* otherwise (elif) the key file
test_connect_params(pr) ==
    IF pr.password THEN {"password"}
    ELSE IF pr.ssh_key /\ pr.key_exists THEN {"key_filename"}
    ELSE {}

\* ssh.connect(**connect_params) (l.91, l.459): paramiko tries the key files of
\* key_filename first and the password after them
AuthOrder(params) ==
    (IF "key_filename" \in params THEN <<"key_filename">> ELSE <<>>)
    \o (IF "password" \in params THEN <<"password">> ELSE <<>>)

Offer(by, params) == [by |-> by, params |-> params, order |-> AuthOrder(params)]

\* mutant of ConnectFailed: the client is cached although connect() raised
ConnectFailed_cached(c, t) ==
    [c EXCEPT !.th[t] = NoThread,
              !.failed = @ \cup {<<-(Cardinality(c.failed) + 1), c.th[t].server>>},
              !.reg[c.th[t].server] = -(Cardinality(c.failed) + 1)]

\* l.99-102: connect() raised; the exception is logged and raised again, the
\* client object of l.69 is dropped with the frame
ConnectFailed(c, t) ==
    [c EXCEPT !.th[t] = NoThread,
              !.failed = @ \cup {<<-(Cardinality(c.failed) + 1), c.th[t].server>>}]

\* l.69-91 and l.99-102: ssh.connect(...) gives a new live connection, or
\* raises and the operation ends with the exception
Connect(t) ==
    /\ cn.th[t].pc = "connect"
    /\ LET o == Offer("get_ssh_connection", connect_params(cn.profile)) IN
       \/ /\ Len(cn.srv) < MaxConns
          /\ cn' = [cn EXCEPT !.srv = Append(@, cn.th[t].server),
                              !.live = @ \cup {Len(cn.srv) + 1},
                              !.th[t].ssh = Len(cn.srv) + 1,
                              !.th[t].pc = "store",
                              !.offered = o]
       \/ /\ Cardinality(cn.failed) < MaxFails
          /\ cn' = [ConnectFailed(cn, t) EXCEPT !.offered = o]

\* test_connection (l.429-472): a client of its own, connected with the
\* parameters of l.443-456 and closed after `echo test`; the registry is
\* neither read nor written.  The answer is True, or False when anything raised.
test_connection(t) ==
    /\ cn.th[t].pc = "idle"
    /\ cn' = [cn EXCEPT !.offered = Offer("test_connection",
                                          test_connect_params(cn.profile))]

\* l.92: self.ssh_connections[server_name] = ssh
Store(t) ==
    /\ cn.th[t].pc = "store"
    /\ cn' = [cn EXCEPT !.reg[cn.th[t].server] = cn.th[t].ssh, !.th[t].pc = "use"]

\* l.121, l.142-143, l.158-159: the command or the transfer starts on the
\* connection get_ssh_connection returned
OpBegin(t) ==
    /\ cn.th[t].pc = "use"
    /\ cn' = [cn EXCEPT !.th[t].pc = "inflight"]

\* the command or the transfer is over, with a result or an exception
OpEnd(t) ==
    /\ cn.th[t].pc = "inflight"
    /\ cn' = [cn EXCEPT !.th[t] = NoThread]

\* the transport of a connection stops being active (network, server, timeout)
TransportDown ==
    \E i \in cn.live : cn' = [cn EXCEPT !.live = @ \ {i}]

\* mutant of CloseAttempts: the first close() that raises ends the loop
CloseAttempts_abort(ids, raising) ==
    {i \in ids : \A j \in raising \cap ids : i <= j}

\* l.106-111: close() is called on every cached connection, an exception of
\* close() is passed over
CloseAttempts(ids, raising) == ids

\* close_all_connections (l.104-112), called by the command line when the
\* work is done (l.642-644): raising holds the connections whose close() raises
close_all_connections ==
    /\ \A t \in Threads : cn.th[t].pc = "idle"
    /\ \E s \in ConnServers : cn.reg[s] # 0
    /\ \E raising \in SUBSET {cn.reg[s] : s \in {x \in ConnServers : cn.reg[x] # 0}} :
         LET ids == {cn.reg[s] : s \in {x \in ConnServers : cn.reg[x] # 0}}
             tried == CloseAttempts(ids, raising)
         IN cn' = [cn EXCEPT !.live = @ \ (tried \ raising),
                             !.closed = @ \cup tried,
                             !.lastClose = ids,
                             !.reg = IF tried = ids THEN [s \in ConnServers |-> 0] ELSE @]

ConnStep(t) ==
    \/ OpStart(t)
    \/ Lookup(t)
    \/ Connect(t)
    \/ Store(t)
    \/ OpBegin(t)
    \/ OpEnd(t)

connRest == <<pipeVars, now, calls, edVars, bulk, http>>

InitConn ==
    /\ remoteFiles = [t \in Targets |-> NoFile]
    /\ backupDirs = {}
    /\ InitPipe
    /\ localFile = NoFile
    /\ InitEd
    /\ now = 0
    /\ calls = 0

\* one thread: the command line
NextConnSeq ==
    \/ (\E t \in SeqThreads : ConnStep(t)) /\ UNCHANGED connRest
    \/ TransportDown /\ UNCHANGED connRest
    \/ close_all_connections /\ UNCHANGED connRest

SpecConnSeq == InitConn /\ [][NextConnSeq]_vars

\* the command line thread over every shape of the server entry; --test and
\* GET /api/status call test_connection
InitAuth ==
    /\ remoteFiles = [t \in Targets |-> NoFile]
    /\ backupDirs = {}
    /\ InitPipe
    /\ localFile = NoFile
    /\ localBackups = {}
    /\ ed = NoEd
    /\ bulk = NoBulk
    /\ http = NoHttp
    /\ \E pr \in Profiles : cn = [NoConn EXCEPT !.profile = pr]
    /\ now = 0
    /\ calls = 0

NextAuth ==
    \/ (\E t \in SeqThreads : ConnStep(t)) /\ UNCHANGED connRest
    \/ (\E t \in SeqThreads : test_connection(t)) /\ UNCHANGED connRest
    \/ TransportDown /\ UNCHANGED connRest

SpecAuth == InitAuth /\ [][NextAuth]_vars

\* the request threads of the web server; it never calls close_all_connections
NextConn ==
    \/ (\E t \in Threads : ConnStep(t)) /\ UNCHANGED connRest
    \/ TransportDown /\ UNCHANGED connRest

SpecConn == InitConn /\ [][NextConn]_vars

(***************************************************************************)
(* Two requests POST /api/customer/s1:custA/parameters handled at the same  *)
(* time: update_customer_parameters (web_server.py l.213-265) calls         *)
(* update_remote_parameters in the thread of each request.                 *)
(***************************************************************************)
\* the parameters of the two requests, by thread
RaceParams ==
    << <<<<"database_host", Sc("new-db.example.com")>>>>,
       <<<<"secret", Sc("abc")>>, <<"cache", Sc("redis")>>>> >>

\* web_server.py l.241-244: thread p calls update_remote_parameters
RaceCall(p) ==
    /\ pc[p] = "idle"
    /\ args' = [args EXCEPT ![p] = [server |-> "s1", customer |-> "custA",
                                    params |-> RaceParams[p]]]
    /\ pc' = [pc EXCEPT ![p] = "resolve"]
    /\ pre' = [pre EXCEPT ![p] = [files |-> remoteFiles, backups |-> remoteBackups,
                                  dirs |-> backupDirs]]
    /\ UNCHANGED <<remoteFiles, backupDirs, remoteBackups, tmpFiles, ssh_connections,
                   now, calls, permissions, backup_path, temp_path, ret, opLog, gh,
                   edVars, bulk, webVars>>

NextRace ==
    \E p \in Procs : RaceCall(p) \/ PipelineStep(p)

\* the server has been in use: the backup directory exists, the clock reads
\* its last second
InitRace ==
    /\ remoteFiles = [t \in Targets |-> CustBFile]
    /\ backupDirs = {"s1"}
    /\ InitPipe
    /\ localFile = NoFile
    /\ InitEd
    /\ now = MaxClock
    /\ calls = 0

SpecRace == InitRace /\ [][NextRace]_vars

(***************************************************************************)
(* The HTTP interface (web_server.py).  One request is followed from its   *)
(* routing to its response; init_ssh_manager may have run before it.       *)
(***************************************************************************)
\* the routes of the application (l.75, l.120, l.142, l.213, l.268, l.323,
\* l.372, l.406): path, method, view function
url_map ==
    { <<"/api/status", "GET", "get_system_status">>,
      <<"/api/customers", "GET", "get_customers">>,
      <<"/api/customer/<id>/parameters", "GET", "get_customer_parameters">>,
      <<"/api/customer/<id>/parameters", "POST", "update_customer_parameters">>,
      <<"/api/bulk-update", "POST", "bulk_update_parameters">>,
      <<"/api/backup/<id>", "POST", "create_backup">>,
      <<"/api/generate-secret", "POST", "generate_secret">>,
      <<"/api/download-all", "POST", "download_all_configs">> }

\* routing: the view function of (path, method); "405" when the path has
\* routes but none for the method, "404" when no route has the path
Match(req) ==
    IF \E r \in url_map : r[1] = req.path /\ r[2] = req.method
    THEN (CHOOSE r \in url_map : r[1] = req.path /\ r[2] = req.method)[3]
    ELSE IF \E r \in url_map : r[1] = req.path THEN "405" ELSE "404"

\* the customer ids of the requests: a configured customer, an id without a
\* colon, an unknown customer, an unknown server
Ids == {TA, <<"custA">>, <<"s1", ":", "nobody">>, <<"ghost", ":", "custA">>}

Json(d) == [kind |-> "json", data |-> d]

\* bodies sent to POST /api/customer/<id>/parameters
ParamBodies ==
    { NoBody, Json(<<>>), Json(<<<<"other", Sc("x")>>>>),
      Json(<<<<"parameters", RaceParams[1]>>>>) }

\* bodies sent to POST /api/bulk-update: none, {}, the three fields, each
\* field missing in turn, an empty target list, an empty name, a null value
BulkBodies ==
    LET t == <<"targets", <<<<"custA">>, TA>>>>
        n == <<"parameter_name", "secret">>
        v == <<"parameter_value", Sc("GENERATE_NEW")>>
    IN { NoBody, Json(<<>>), Json(<<t, n, v>>), Json(<<n, v>>), Json(<<t, v>>),
         Json(<<t, n>>), Json(<<<<"targets", <<>>>>, n, v>>),
         Json(<<t, <<"parameter_name", "">>, v>>),
         Json(<<t, n, <<"parameter_value", Null>>>>) }

Req(path, method, id, body) == [path |-> path, method |-> method, id |-> id, body |-> body]

Requests ==
    {Req(p, m, <<>>, NoBody) :
        p \in {"/api/status", "/api/customers", "/api/generate-secret",
               "/api/download-all", "/api/nonexistent"},
        m \in {"GET", "POST"}}
    \cup {Req("/api/customer/<id>/parameters", "GET", i, NoBody) : i \in Ids}
    \cup {Req("/api/customer/<id>/parameters", "POST", i, b) : i \in Ids, b \in ParamBodies}
    \cup {Req("/api/customer/<id>/parameters", "DELETE", TA, NoBody)}
    \cup {Req("/api/bulk-update", "POST", <<>>, b) : b \in BulkBodies}
    \cup {Req("/api/bulk-update", "GET", <<>>, NoBody)}
    \cup {Req("/api/backup/<id>", "POST", i, NoBody) : i \in Ids}
    \cup {Req("/api/backup/<id>", "GET", TA, NoBody)}

\* what the environment does at the one call of a handler that depends on it
Outcomes == {"none", "raise"}

\* jsonify({"error": ...}), code
Err(code) == [NoResp EXCEPT !.status = code, !.json = TRUE, !.error = TRUE]
\* jsonify({"success": True, ...}), 200
Ok == [NoResp EXCEPT !.status = 200, !.json = TRUE, !.success = TRUE]
\* the handler returns r at once
Respond(r) == [go |-> "done", resp |-> r, contact |-> FALSE]
\* the handler calls into the manager
Go(where) == [go |-> where, resp |-> NoResp, contact |-> FALSE]

\* mutant of ManagerMissing: the handlers do not look at the global
ManagerMissing_never(mgr) == FALSE

\* `if not ssh_manager` (l.84, l.129, l.153, l.224, l.277, l.335, l.415)
ManagerMissing(mgr) == ~mgr

\* request.get_json() (l.236, l.280).  Without a JSON body it returns None or
\* raises (415 Unsupported Media Type, 400 Bad Request), depending on the
\* Flask version and the Content-Type header; x says which.
get_json(body, x) ==
    [raised |-> body.kind = "absent" /\ x = "raise", data |-> body.data]

Get(d, k, default) == IF HasKey(d, k) THEN DictGet(d, k) ELSE default

\* GET /api/status (l.75-117): test_connection on every server, whatever it
\* answers or raises is put into the servers map
get_system_status(mgr) ==
    IF ManagerMissing(mgr) THEN Respond(Err(500))
    ELSE [go |-> "done", resp |-> Ok, contact |-> TRUE]

\* GET /api/customers (l.120-139)
get_customers(mgr) ==
    IF ManagerMissing(mgr) THEN Respond(Err(500)) ELSE Respond(Ok)

\* GET /api/customer/<id>/parameters (l.142-172): up to the creation of the
\* temporary file
get_customer_parameters(mgr, id) ==
    IF ManagerMissing(mgr) THEN Respond(Err(500))
    ELSE IF ~HasColon(id) THEN Respond(Err(400))
    ELSE IF ~Configured(Split(id)[1], Split(id)[2]) THEN Respond(Err(404))
    ELSE Go("download")

\* POST /api/customer/<id>/parameters (l.213-244): up to the call of
\* update_remote_parameters; an exception out of get_json ends in l.263-265
update_customer_parameters(mgr, id, body, x) ==
    IF ManagerMissing(mgr) THEN Respond(Err(500))
    ELSE IF ~HasColon(id) THEN Respond(Err(400))
    ELSE LET j == get_json(body, x) IN
         IF j.raised THEN Respond(Err(500))
         ELSE IF j.data = <<>> \/ ~HasKey(j.data, "parameters") THEN Respond(Err(400))
         ELSE Go("pipeline")

\* POST /api/bulk-update (l.268-296): up to the call of bulk_update_parameter;
\* an exception out of get_json ends in l.318-320
bulk_update_parameters(mgr, body, x) ==
    IF ManagerMissing(mgr) THEN Respond(Err(500))
    ELSE LET j == get_json(body, x) IN
         IF j.raised THEN Respond(Err(500))
         ELSE IF j.data = <<>> THEN Respond(Err(400))
         ELSE IF Get(j.data, "targets", <<>>) = <<>> THEN Respond(Err(400))
         ELSE IF Get(j.data, "parameter_name", "") = "" THEN Respond(Err(400))
         ELSE IF Get(j.data, "parameter_value", Null) = Null THEN Respond(Err(400))
         ELSE Go("bulk")

\* POST /api/backup/<id> (l.323-369).  l.348 calls ssh_manager.create_backup,
\* and SSHManager has no method of that name (its backup method is
\* create_remote_backup, ssh_manager.py l.217): the call raises
\* AttributeError, which ends in l.367-369.
api_create_backup(mgr, id) ==
    IF ManagerMissing(mgr) THEN Respond(Err(500))
    ELSE IF ~HasColon(id) THEN Respond(Err(400))
    ELSE Respond(Err(500))

\* mutant of secret_chars: the 32 characters of SSHManager.generate_secret
secret_chars_32(n) == [i \in 1..32 |-> "c"]

\* l.385-386: "".join(secrets.choice(alphabet) for _ in range(n)); which
\* characters are drawn is left open, "c" stands for any of them
secret_chars(n) == [i \in 1..n |-> "c"]

\* POST /api/generate-secret (l.372-402): a secret of 64 characters and its
\* len(); the manager is not used
api_generate_secret ==
    LET secret == secret_chars(64) IN
    Respond([Ok EXCEPT !.secret = secret, !.length = Len(secret)])

\* POST /api/download-all (l.406-446): mkdir may raise; the downloads are
\* tried one by one and their failures counted
download_all_configs(mgr, x) ==
    IF ManagerMissing(mgr) THEN Respond(Err(500))
    ELSE IF x = "raise" THEN Respond(Err(500))
    ELSE [go |-> "done", resp |-> Ok, contact |-> TRUE]

\* @app.errorhandler(404) (l.449-452)
not_found == Respond(Err(404))

\* no error handler is registered for 405: the response is werkzeug's HTML page
method_not_allowed == Respond([NoResp EXCEPT !.status = 405])

\* the application answers a request: routing, then the view function
Dispatch(req, mgr, x) ==
    LET view == Match(req) IN
    CASE view = "get_system_status" -> get_system_status(mgr)
      [] view = "get_customers" -> get_customers(mgr)
      [] view = "get_customer_parameters" -> get_customer_parameters(mgr, req.id)
      [] view = "update_customer_parameters" ->
             update_customer_parameters(mgr, req.id, req.body, x)
      [] view = "bulk_update_parameters" -> bulk_update_parameters(mgr, req.body, x)
      [] view = "create_backup" -> api_create_backup(mgr, req.id)
      [] view = "generate_secret" -> api_generate_secret
      [] view = "download_all_configs" -> download_all_configs(mgr, x)
      [] view = "405" -> method_not_allowed
      [] OTHER -> not_found

\* init_ssh_manager (l.46-60): SSHManager("ssh_config.yml", "INFO") either
\* returns and the global is set, or raises and the global stays as it was
init_ssh_manager ==
    /\ http.pc = "idle"
    /\ http.init = "none"
    /\ \E ok \in BOOLEAN :
         http' = [http EXCEPT !.init = IF ok THEN "true" ELSE "false",
                              !.mgr = IF ok THEN TRUE ELSE @]
    /\ UNCHANGED <<pipeVars, now, calls, edVars, bulk, cn>>

\* a request arrives and its handler runs up to its return or up to its
\* call of download_file, update_remote_parameters or bulk_update_parameter
Request ==
    /\ http.pc = "idle"
    /\ pc[1] = "idle"
    /\ bulk.pc = "idle"
    /\ \E req \in Requests, x \in Outcomes :
         LET h == Dispatch(req, http.mgr, x)
             sc == Split(req.id)
             snapshot == [files |-> remoteFiles, backups |-> remoteBackups,
                          dirs |-> backupDirs]
         IN
         /\ http' = [http EXCEPT !.req = req, !.pc = h.go, !.resp = h.resp,
                                 !.contact = h.contact]
         /\ CASE h.go = "download" ->
                   /\ args' = [args EXCEPT ![1] = [server |-> sc[1], customer |-> sc[2],
                                                   params |-> <<>>]]
                   /\ pc' = [pc EXCEPT ![1] = "mktemp"]
                   /\ UNCHANGED <<pre, bulk>>
              [] h.go = "pipeline" ->
                   /\ args' = [args EXCEPT ![1] =
                                  [server |-> sc[1], customer |-> sc[2],
                                   params |-> DictGet(req.body.data, "parameters")]]
                   /\ pc' = [pc EXCEPT ![1] = "resolve"]
                   /\ pre' = [pre EXCEPT ![1] = snapshot]
                   /\ UNCHANGED bulk
              [] h.go = "bulk" ->
                   /\ bulk' = bulk_update_start(bulk, DictGet(req.body.data, "targets"),
                                  <<DictGet(req.body.data, "parameter_name"),
                                    DictGet(req.body.data, "parameter_value")>>)
                   /\ UNCHANGED <<args, pc, pre>>
              [] OTHER -> UNCHANGED <<args, pc, pre, bulk>>
    /\ UNCHANGED <<remoteFiles, backupDirs, remoteBackups, tmpFiles, ssh_connections,
                   now, calls, permissions, backup_path, temp_path, ret, opLog, gh,
                   edVars, cn>>

\* mutant of ParseResponse: the file is not parsed
ParseResponse_blind(tf) == [Ok EXCEPT !.parameters = Mp(<<>>)]

\* l.183-199: yaml.safe_load, `data.get("parameters", {}) if data else {}`, the
\* 200 response.  A file that does not parse raises, and so does a document
\* that is neither empty nor a mapping (it has no get); both end in l.206-208.
ParseResponse(tf) ==
    IF ~tf.ok THEN Err(500)
    ELSE IF \/ tf.doc.kind = "null"
            \/ (tf.doc.kind = "scalar" /\ tf.doc.s = "")
            \/ (tf.doc.kind = "map" /\ tf.doc.m = <<>>)
    THEN [Ok EXCEPT !.parameters = Mp(<<>>)]
    ELSE IF tf.doc.kind = "map"
    THEN [Ok EXCEPT !.parameters = Get(tf.doc.m, "parameters", Mp(<<>>))]
    ELSE Err(500)

\* get_customer_parameters after download_file returned or raised (l.179-208):
\* the response, and the `finally` that unlinks the temporary file
GetParametersRespond ==
    /\ http.pc = "download"
    /\ pc[1] \in {"edit", "done"}
    /\ http' = [http EXCEPT !.pc = "done",
                            !.resp = IF pc[1] = "done" THEN Err(500)
                                     ELSE ParseResponse(tmpFiles[temp_path[1]])]
    /\ tmpFiles' = unlink(tmpFiles, temp_path[1])
    /\ UNCHANGED <<remoteFiles, backupDirs, remoteBackups, ssh_connections, now, calls,
                   pc, args, permissions, backup_path, temp_path, ret, opLog, gh, pre,
                   edVars, bulk, cn>>

\* update_customer_parameters after update_remote_parameters returned (l.246-261)
UpdateRespond ==
    /\ http.pc = "pipeline"
    /\ pc[1] = "done"
    /\ http' = [http EXCEPT !.pc = "done",
                            !.resp = IF ret[1] = "true" THEN Ok ELSE Err(500)]
    /\ UNCHANGED <<pipeVars, now, calls, edVars, bulk, cn>>

\* bulk_update_parameters after bulk_update_parameter returned (l.298-316)
BulkRespond ==
    /\ http.pc = "bulk"
    /\ bulk.pc = "done"
    /\ http' = [http EXCEPT !.pc = "done", !.resp = [Ok EXCEPT !.results = bulk.results]]
    /\ UNCHANGED <<pipeVars, now, calls, edVars, bulk, cn>>

\* the remote file of s1:custA when the server starts
WebInitFiles ==
    { MkFile(2, TRUE, Mp(<<Imports, <<"parameters", Mp(ParamsAB)>>, Framework>>),
             <<"644", "www-data", "www-data">>),
      MkFile(0, TRUE, Mp(<<Imports, Framework>>), <<"600", "root", "wheel">>),
      MkFile(0, TRUE, Mp(<<Imports, <<"parameters", Null>>>>), <<"600", "root", "wheel">>),
      MkFile(0, TRUE, Sc("- a list"), <<"644", "www-data", "www-data">>),
      MkFile(0, FALSE, Null, <<"644", "www-data", "www-data">>) }

InitWeb ==
    /\ \E f \in WebInitFiles :
         remoteFiles = [t \in Targets |-> IF t[2] = "custA" THEN f ELSE CustBFile]
    /\ backupDirs = {"s1"}
    /\ InitPipe
    /\ localFile = NoFile
    /\ InitEd
    /\ now = MaxClock
    /\ calls = 0

NextWeb ==
    \/ init_ssh_manager
    \/ Request
    \/ http.pc = "download" /\ (MkTemp(1) \/ Download(1))
    \/ GetParametersRespond
    \/ http.pc = "pipeline" /\ PipelineStep(1)
    \/ UpdateRespond
    \/ http.pc = "bulk" /\ (BulkTarget \/ BulkResult \/ BulkReturn \/ PipelineStep(1))
    \/ BulkRespond

SpecWeb == InitWeb /\ [][NextWeb]_vars

(***************************************************************************)
(* Properties                                                              *)
(***************************************************************************)
TmpExists(i) == i \in 1..Len(tmpFiles) /\ tmpFiles[i].exists
Ops(p) == opLog[p].ops
OpsSet(p) == {Ops(p)[i] : i \in 1..Len(Ops(p))}
LastOp(p) == IF Ops(p) = <<>> THEN "" ELSE Ops(p)[Len(Ops(p))]

\* the top-level mapping of a file, empty when the file has none
TopOf(f) == IF f.exists /\ f.ok /\ f.doc.kind = "map" THEN f.doc.m ELSE <<>>
\* the parameters mapping of a file, empty when the file has none
ParamsOf(f) ==
    IF HasKey(TopOf(f), "parameters") /\ DictGet(TopOf(f), "parameters").kind = "map"
    THEN DictGet(TopOf(f), "parameters").m
    ELSE <<>>
HasParams(f) ==
    HasKey(TopOf(f), "parameters") /\ DictGet(TopOf(f), "parameters").kind = "map"

\* r is a with every key of b overwritten or added
MergedInto(r, a, b) ==
    /\ DictKeys(r) = DictKeys(a) \cup DictKeys(b)
    /\ \A k \in DictKeys(b) : DictGet(r, k) = DictGet(b, k)
    /\ \A k \in DictKeys(a) \ DictKeys(b) : DictGet(r, k) = DictGet(a, k)

\* C1 (as claimed): when update_remote_parameters has returned, True or
\* False, the temporary file it created no longer exists.
C1_TempFileRemoved ==
    \A p \in Procs :
        pc[p] = "done" /\ temp_path[p] # 0 => ~TmpExists(temp_path[p])

\* C2: a failure of Resolve, Download, Edit or Upload makes the call return
\* False, and the call returns True only if none of the four failed: the
\* target is configured, the download and the upload were made, and no step
\* is recorded as failed.
C2_ReturnValue ==
    \A p \in Procs :
        pc[p] = "done" =>
            /\ gh[p].failed \in {"resolve", "download", "download_raise", "edit",
                                 "upload", "upload_raise"} => ret[p] = "false"
            /\ ret[p] = "true" =>
                   /\ gh[p].failed = ""
                   /\ Target(p) \in Targets
                   /\ {"get", "put"} \subseteq OpsSet(p)

C2_Witness ==
    \E p \in Procs : pc[p] = "done" /\ gh[p].failed = "edit" /\ ret[p] = "false"

\* C3: after a call that returned True the remote file's parameters are the
\* parameters it held before the call with every key of new_parameters
\* overwritten or added; the other keys keep their values.
C3_RemoteMerged ==
    \A p \in Procs :
        pc[p] = "done" /\ ret[p] = "true" =>
            /\ HasParams(remoteFiles[Target(p)])
            /\ MergedInto(ParamsOf(remoteFiles[Target(p)]),
                          ParamsOf(pre[p].files[Target(p)]), args[p].params)

C3_Witness ==
    \E p \in Procs :
        /\ pc[p] = "done" /\ ret[p] = "true"
        /\ HasKey(args[p].params, "database_host")
        /\ HasKey(ParamsOf(pre[p].files[Target(p)]), "database_host")
        /\ HasKey(ParamsOf(pre[p].files[Target(p)]), "secret")
        /\ DictGet(ParamsOf(remoteFiles[Target(p)]), "secret") = Sc("xyz")
        /\ DictGet(ParamsOf(remoteFiles[Target(p)]), "database_host")
               = Sc("new-db.example.com")

\* C4: when the stat query yields no snapshot the pipeline goes on: a call
\* that ends with stat as its last remote operation ended by an exception
\* (out of the stat command or out of the connect that precedes mkdir),
\* never by the missing snapshot; and without a snapshot no chown or chmod
\* is issued.
C4_NoSnapshotContinues ==
    \A p \in Procs :
        /\ pc[p] = "done" /\ LastOp(p) = "stat" =>
               gh[p].failed \in {"stat_raise", "backup_raise"}
        /\ ~permissions[p].have => OpsSet(p) \cap {"chown", "chmod"} = {}

C4_Witness ==
    \E p \in Procs :
        /\ pc[p] = "done" /\ ret[p] = "true"
        /\ ~permissions[p].have
        /\ Ops(p) = <<"stat", "mkdir", "cp", "get", "put">>

\* C5: a failed backup does not stop the update: a call that ends with cp
\* as its last remote operation ended by an exception (out of the cp command
\* or out of the connect that precedes the download), never by the missing
\* backup; with backup_path None the pipeline goes on to the download.
C5_BackupFailureContinues ==
    \A p \in Procs :
        /\ pc[p] = "done" /\ LastOp(p) = "cp" =>
               gh[p].failed \in {"backup_raise", "download_raise"}
        /\ pc[p] \in {"mktemp", "download", "edit", "upload", "chown", "chmod", "cleanup"}
               => "cp" \in OpsSet(p)

C5_Witness ==
    \E p \in Procs :
        /\ pc[p] = "done" /\ ret[p] = "true"
        /\ backup_path[p] = NoPath
        /\ remoteBackups = pre[p].backups
        /\ "cp" \in OpsSet(p)

\* C6: a failed permission restore (chown or chmod exits non-zero or raises)
\* after a successful upload still ends in True, and the uploaded content
\* stays: while the restore runs and after it the remote file holds what the
\* temporary file holds, and nothing but chown and chmod follows the upload.
C6_RestoreFailureKeepsUpdate ==
    \A p \in Procs :
        /\ pc[p] \in {"chown", "chmod", "cleanup"} =>
               Content(remoteFiles[Target(p)]) = Content(tmpFiles[temp_path[p]])
        /\ pc[p] = "done" /\ gh[p].restore \in {"failed", "chown_failed"} =>
               /\ ret[p] = "true"
               /\ \A i \in 1..Len(Ops(p)) :
                      Ops(p)[i] = "put" =>
                          \A j \in (i+1)..Len(Ops(p)) : Ops(p)[j] \in {"chown", "chmod"}

C6_Witness ==
    \E p \in Procs :
        /\ pc[p] = "done" /\ ret[p] = "true" /\ gh[p].restore = "failed"
        /\ LastOp(p) = "chmod"
        /\ MergedInto(ParamsOf(remoteFiles[Target(p)]),
                      ParamsOf(pre[p].files[Target(p)]), args[p].params)
        /\ ParamsOf(remoteFiles[Target(p)]) # ParamsOf(pre[p].files[Target(p)])

\* C7 (as claimed): when the call ended because the download failed, nothing
\* on the remote host was created, changed or removed.
C7_NothingRemoteTouched ==
    \A p \in Procs :
        pc[p] = "done" /\ gh[p].failed \in {"download", "download_raise"} =>
            /\ remoteFiles = pre[p].files
            /\ remoteBackups = pre[p].backups
            /\ backupDirs = pre[p].dirs

\* C7 (amended): when the call ended because the download failed, no
\* customer's parameters file was created, changed or removed; the backup
\* directory and a backup copy may have been created.
C7_TargetFilesUntouched ==
    \A p \in Procs :
        pc[p] = "done" /\ gh[p].failed \in {"download", "download_raise"} =>
            remoteFiles = pre[p].files

C7_Witness ==
    \E p \in Procs :
        /\ pc[p] = "done" /\ gh[p].failed = "download"
        /\ remoteFiles[Target(p)].exists
        /\ remoteBackups # pre[p].backups
        /\ backupDirs # pre[p].dirs

\* C8: for a server or customer that is not in the configuration the call
\* returns False without remote contact: no connection attempt, no command,
\* no transfer, no change of the remote state or of the connection cache.
C8_UnknownTargetNoContact ==
    \A p \in Procs :
        pc[p] # "idle" /\ Target(p) \notin Targets =>
            /\ Ops(p) = <<>>
            /\ ~opLog[p].connect
            /\ pc[p] \in {"resolve", "done"}
            /\ pc[p] = "done" => ret[p] = "false"
            /\ remoteFiles = pre[p].files
            /\ remoteBackups = pre[p].backups
            /\ backupDirs = pre[p].dirs
            /\ temp_path[p] = 0

C8_Witness ==
    \E p \in Procs :
        /\ pc[p] = "done" /\ ret[p] = "false"
        /\ args[p].server = "s1" /\ args[p].customer = "nobody"

\* C9: after the editor has merged and saved, the parameters map has exactly
\* the keys of the old map and of the new one, every key of the new map holds
\* the new value (a nested map is replaced as a whole) and every other key
\* holds its old value.
C9_MergeCorrect ==
    ed.ret = "true" =>
        /\ HasParams(localFile)
        /\ MergedInto(ParamsOf(localFile), ParamsOf(ed.pre), ed.params)

C9_Witness ==
    /\ ed.ret = "true"
    /\ HasKey(ParamsOf(ed.pre), "mailer")
    /\ HasKey(ed.params, "mailer")
    /\ DictGet(ParamsOf(ed.pre), "mailer")
           = Mp(<<<<"host", Sc("a")>>, <<"port", Sc("25")>>>>)
    /\ DictGet(ParamsOf(localFile), "mailer") = Mp(<<<<"host", Sc("b")>>>>)
    /\ DictGet(ParamsOf(localFile), "locale") = Sc("en")

\* C10: a successful update_parameters keeps every top-level key other than
\* `parameters` that the file held, with its value.
C10_TopLevelKeysKept ==
    ed.ret = "true" =>
        \A k \in DictKeys(TopOf(ed.pre)) \ {"parameters"} :
            /\ HasKey(TopOf(localFile), k)
            /\ DictGet(TopOf(localFile), k) = DictGet(TopOf(ed.pre), k)

C10_Witness ==
    /\ ed.ret = "true"
    /\ {"imports", "framework", "parameters"} \subseteq DictKeys(TopOf(ed.pre))
    /\ ParamsOf(localFile) # ParamsOf(ed.pre)
    /\ DictGet(TopOf(localFile), "framework") = Mp(<<<<"locale", Sc("de")>>>>)

\* C11: when update_parameters succeeds a second time with the parameter set
\* of the successful call before it, the file is exactly as that first call
\* left it: same keys, values and key order, one preamble line.
C11_SecondRunIdempotent ==
    (ed.ret = "true" /\ ed.prevRet = "true" /\ ed.prevParams = ed.params) =>
        /\ localFile = ed.pre
        /\ localFile.comments = 1

C11_Witness ==
    /\ ed.ret = "true" /\ ed.prevRet = "true" /\ ed.prevParams = ed.params
    /\ HasKey(ed.params, "mailer")
    /\ Len(ParamsOf(localFile)) >= 3
    /\ Len(TopOf(localFile)) >= 2

C13_BackupFailureAborts ==
    (ed.ret # "none" /\ ed.backup /\ ed.o.copy = "err") =>
        /\ ed.ret = "false"
        /\ localFile = ed.pre
        /\ \A i \in 1..Len(ed.log) : ed.log[i] = "copy2"

C13_Witness ==
    /\ ed.backup /\ ed.o.copy = "err" /\ ed.ret = "false"
    /\ ed.log = <<"copy2">>
    /\ HasParams(ed.pre)
    /\ ed.params # <<>>

\* C14: a local update that has saved the new content and then fails to
\* restore owner or mode is still reported as successful.
C14_LocalRestoreFailureIsWarning ==
    (/\ Len(ed.log) > 0
     /\ ed.log[Len(ed.log)] \in {"chown", "chmod"}
     /\ (ed.o.chown = "err" \/ ed.o.chmod = "err")) =>
        ed.ret = "true"

\* C15 as claimed: a backup file, once written, is in the backup directory
\* with the same content after every later step of any invocation.
C15_BackupsNeverOverwritten ==
    [][\A b \in remoteBackups : b \in remoteBackups']_vars

\* C15: a backup step that succeeds leaves a copy of the target file at its
\* backup path; no step removes a backup path; the content at a backup path
\* changes only when a later backup step on the same server writes a file of
\* the same name within the same second.
C15_BackupsAccumulate ==
    [][/\ \A b \in remoteBackups :
             /\ \E b2 \in remoteBackups' :
                    b2.server = b.server /\ b2.name = b.name /\ b2.ts = b.ts
             /\ b \notin remoteBackups' =>
                    \E p \in Procs :
                        /\ pc[p] = "cp"
                        /\ b.server = args[p].server
                        /\ b.name = backup_path[p].name
                        /\ b.ts = backup_path[p].ts
       /\ \A p \in Procs :
             (pc[p] = "cp" /\ pc'[p] = "mktemp" /\ backup_path'[p] # NoPath) =>
                 \E b \in remoteBackups' :
                     /\ b.server = args[p].server
                     /\ b.name = backup_path'[p].name
                     /\ b.ts = backup_path'[p].ts
                     /\ b.file = RemoteFile(Target(p))]_vars

C15_Witness ==
    /\ bulk.pc = "done"
    /\ \E b1, b2 \in remoteBackups :
          b1.server = b2.server /\ b1.name = b2.name /\ b1.ts < b2.ts
                                /\ b1.file # b2.file

\* the target a pipeline run of a bulk call was made for
TargetOf(b, r) == b.targets[r.i]

\* C16: in a bulk call given GENERATE_NEW under `secret`, the values passed
\* under `secret` to the pipeline runs of two different targets differ,
\* and none of them is the literal GENERATE_NEW.
C16_SecretPerTarget ==
    (HasKey(bulk.parameters, "secret")
         /\ DictGet(bulk.parameters, "secret") = Sc("GENERATE_NEW")) =>
        \A j, k \in 1..Len(bulk.runs) :
            /\ HasKey(bulk.runs[j].params, "secret")
            /\ DictGet(bulk.runs[j].params, "secret") # Sc("GENERATE_NEW")
            /\ TargetOf(bulk, bulk.runs[j]) # TargetOf(bulk, bulk.runs[k]) =>
                   DictGet(bulk.runs[j].params, "secret")
                       # DictGet(bulk.runs[k].params, "secret")

C16_Witness ==
    /\ bulk.pc = "done"
    /\ Len(bulk.runs) = 2
    /\ bulk.runs[1].ret = "true" /\ bulk.runs[2].ret = "true"
    /\ TargetOf(bulk, bulk.runs[1]) # TargetOf(bulk, bulk.runs[2])
    /\ DictGet(bulk.parameters, "secret") = Sc("GENERATE_NEW")
    /\ HasKey(ParamsOf(remoteFiles[<<"s1", "custA">>]), "secret")
    /\ HasKey(ParamsOf(remoteFiles[<<"s1", "custB">>]), "secret")
    /\ DictGet(ParamsOf(remoteFiles[<<"s1", "custB">>]), "secret")
           = DictGet(bulk.runs[2].params, "secret")
    /\ DictGet(ParamsOf(remoteFiles[<<"s1", "custA">>]), "secret")
           = DictGet(bulk.runs[1].params, "secret")

\* C17: every pipeline run of a bulk call is passed the keys the call was
\* given, in order; a key other than `secret` carries the given value, the
\* literal GENERATE_NEW included, and `secret` carries the given value when
\* that is not GENERATE_NEW.
C17_SentinelOnlyForSecret ==
    \A j \in 1..Len(bulk.runs) :
        LET ps == bulk.runs[j].params IN
        /\ Len(ps) = Len(bulk.parameters)
        /\ \A k \in 1..Len(ps) :
              /\ ps[k][1] = bulk.parameters[k][1]
              /\ (ps[k][1] # "secret" \/ bulk.parameters[k][2] # Sc("GENERATE_NEW")) =>
                     ps[k][2] = bulk.parameters[k][2]

C17_Witness ==
    /\ bulk.pc = "done"
    /\ bulk.op = "template"
    /\ \E j \in 1..Len(bulk.runs) :
          /\ bulk.runs[j].ret = "true"
          /\ bulk.runs[j].customer = "custA"
          /\ HasKey(bulk.runs[j].params, "api_key")
          /\ DictGet(bulk.runs[j].params, "api_key") = Sc("GENERATE_NEW")
          /\ DictGet(bulk.runs[j].params, "secret") # Sc("GENERATE_NEW")
          /\ HasKey(ParamsOf(remoteFiles[<<"s1", "custA">>]), "api_key")
          /\ DictGet(ParamsOf(remoteFiles[<<"s1", "custA">>]), "api_key")
                 = Sc("GENERATE_NEW")

LastRun(k) ==
    LET t == bulk.targets[k]
        j == CHOOSE j \in 1..Len(bulk.runs) :
                 /\ TargetOf(bulk, bulk.runs[j]) = t
                 /\ \A m \in (j + 1)..Len(bulk.runs) : TargetOf(bulk, bulk.runs[m]) # t
    IN bulk.runs[j]

\* C19: when a bulk call that went into its loop returns, a pipeline run was
\* made for every position of the list that holds a target with a colon,
\* results has exactly the targets of the list as keys, and the entry of
\* each such target is what its (last) pipeline run returned.
C19_PartialFailureIsolation ==
    (bulk.pc = "done" /\ (bulk.op = "bulk_update" \/ HasKey(bulk_templates, bulk.name))) =>
        /\ {bulk.runs[j].i : j \in 1..Len(bulk.runs)}
               = {k \in 1..Len(bulk.targets) : HasColon(bulk.targets[k])}
        /\ DictKeys(bulk.results) = {bulk.targets[k] : k \in 1..Len(bulk.targets)}
        /\ \A k \in 1..Len(bulk.targets) :
              HasColon(bulk.targets[k]) =>
                  /\ LastRun(k).ret \in {"true", "false"}
                  /\ DictGet(bulk.results, bulk.targets[k]) = LastRun(k).ret

C19_Witness ==
    /\ bulk.pc = "done"
    /\ Len(bulk.targets) = 3
    /\ bulk.results = <<<<TA, "false">>, <<<<"s1custB">>, "false">>, <<TB, "true">>>>
    /\ Len(bulk.runs) = 2
    /\ HasKey(ParamsOf(remoteFiles[<<"s1", "custB">>]), bulk.runs[2].params[1][1])
    /\ DictGet(ParamsOf(remoteFiles[<<"s1", "custB">>]), bulk.runs[2].params[1][1])
           = bulk.runs[2].params[1][2]

\* C20: apply_bulk_template with a template name that is not configured
\* ends with an error handed to its caller.
C20_TemplateNotFoundError ==
    (bulk.pc = "done" /\ bulk.op = "template" /\ ~HasKey(bulk_templates, bulk.name)) =>
        bulk.error

\* C21: with one thread, the connection an operation works on is the one
\* cached for its server; a thread is sent to connect only when no active
\* connection is cached for the server; and a server is connected to again
\* only after the earlier connection stopped being active or was closed by
\* close_all_connections, so operations on one server connect once for as
\* long as the connection stays active.
C21_CachedConnectionReused ==
    /\ \A t \in SeqThreads :
          /\ cn.th[t].pc \in {"use", "inflight"} =>
                 cn.reg[cn.th[t].server] = cn.th[t].ssh
          /\ cn.th[t].pc \in {"connect", "store"} =>
                 (cn.reg[cn.th[t].server] = 0 \/ cn.reg[cn.th[t].server] \notin cn.live)
    /\ \A i, j \in 1..Len(cn.srv) :
          (i < j /\ cn.srv[i] = cn.srv[j] /\ i \in cn.live) => i \in cn.closed

C21_Witness ==
    /\ cn.th[1].pc = "inflight" /\ cn.th[1].cached /\ cn.th[1].server = "s1"
    /\ cn.srv = <<"s1", "s2", "s1">>
    /\ cn.live = {2, 3}
    /\ cn.reg["s1"] = 3

\* C22: every connection with an active transport is the one cached for its
\* server, or is about to be cached by the thread that has just made it, or
\* has had close() called on it.
C22_OneLiveConnectionPerServer ==
    \A i \in cn.live :
        \/ cn.reg[cn.srv[i]] = i
        \/ i \in cn.closed
        \/ \E t \in Threads : cn.th[t].pc = "store" /\ cn.th[t].ssh = i

\* C23: no two threads have an operation in flight on the same connection.
C23_OneOperationInFlight ==
    \A t, u \in Threads :
        (t # u /\ cn.th[t].pc = "inflight" /\ cn.th[u].pc = "inflight") =>
            cn.th[t].ssh # cn.th[u].ssh

\* C25: when close_all_connections has run, close() was called on every
\* connection that was cached, those whose close() did not raise are no
\* longer active, the registry is empty until the next connect is stored,
\* and no operation is ever given a connection that was closed.
C25_CloseAllEmptiesRegistry ==
    /\ cn.lastClose \subseteq cn.closed
    /\ \A s \in ConnServers : cn.reg[s] \notin cn.closed
    /\ \A t \in SeqThreads :
          cn.th[t].pc \in {"use", "inflight"} => cn.th[t].ssh \notin cn.closed

C25_Witness ==
    /\ cn.lastClose = {1, 2}
    /\ cn.live = {2, 3}
    /\ cn.srv = <<"s1", "s2", "s1">>
    /\ cn.th[1].pc = "use" /\ cn.th[1].ssh = 3 /\ ~cn.th[1].cached

\* C24: when two invocations on one target have both returned True, the
\* remote file holds what the invocation that uploaded last had downloaded,
\* with that invocation's parameters merged in and nothing else changed.
C24_LastWriteWins ==
    \A p, q \in Procs :
        (/\ p # q
         /\ pc[p] = "done" /\ pc[q] = "done"
         /\ ret[p] = "true" /\ ret[q] = "true"
         /\ Target(p) = Target(q)
         /\ gh[p].put > gh[q].put) =>
            LET f == RemoteFile(Target(p)) IN
            /\ HasParams(f)
            /\ MergedInto(ParamsOf(f), ParamsOf(gh[p].got), args[p].params)
            /\ \A k \in DictKeys(TopOf(gh[p].got)) \ {"parameters"} :
                   /\ HasKey(TopOf(f), k)
                   /\ DictGet(TopOf(f), k) = DictGet(TopOf(gh[p].got), k)

\* both succeeded, thread 1 uploaded last, and the secret thread 2 reported
\* as written is not in the file
C24_Witness ==
    /\ pc[1] = "done" /\ pc[2] = "done"
    /\ ret[1] = "true" /\ ret[2] = "true"
    /\ gh[1].put = 2 /\ gh[2].put = 1
    /\ HasKey(ParamsOf(RemoteFile(<<"s1", "custA">>)), "database_host")
    /\ DictGet(ParamsOf(RemoteFile(<<"s1", "custA">>)), "database_host")
           = Sc("new-db.example.com")
    /\ ~HasKey(ParamsOf(RemoteFile(<<"s1", "custA">>)), "cache")


\* the handler of the request has returned its response
Answered(path, method) ==
    /\ http.pc = "done"
    /\ http.req.path = path
    /\ http.req.method = method

\* the request reached no call that contacts a server
NoRemoteContact ==
    /\ ~http.contact
    /\ opLog[1] = NoLog
    /\ bulk.runs = <<>>

\* C26: POST /api/backup/{id} answers 400 to an id without a colon; to the id
\* of a configured customer it answers 200 with success and the backup path,
\* or 500 after a backup was attempted on the server and could not be created.
C26_BackupEndpoint ==
    (Answered("/api/backup/<id>", "POST") /\ http.mgr) =>
        IF ~HasColon(http.req.id)
        THEN http.resp.status = 400
        ELSE Configured(Split(http.req.id)[1], Split(http.req.id)[2]) =>
                \/ /\ http.resp.status = 200
                   /\ http.resp.success
                   /\ http.resp.backup_path # ""
                \/ /\ http.resp.status = 500
                   /\ ~NoRemoteContact

\* the view functions that use the global manager
UsesManager(view) ==
    view \in {"get_system_status", "get_customers", "get_customer_parameters",
              "update_customer_parameters", "bulk_update_parameters", "create_backup",
              "download_all_configs"}

\* C27: a failed init_ssh_manager returns False and leaves the manager unset,
\* a successful one returns True and sets it; while the manager is unset every
\* endpoint that uses it answers 500 with a JSON `error` and nothing is sent
\* to a server, no download, pipeline or bulk run is begun; with the manager
\* set the customer list is served.
C27_UninitializedManager ==
    /\ http.init = "false" => ~http.mgr
    /\ http.init = "true" => http.mgr
    /\ http.pc \in {"download", "pipeline", "bulk"} => http.mgr
    /\ (http.pc = "done" /\ ~http.mgr /\ UsesManager(Match(http.req))) =>
          /\ http.resp.status = 500
          /\ http.resp.json
          /\ http.resp.error
          /\ ~http.resp.success
          /\ NoRemoteContact
          /\ pc[1] = "idle"
          /\ tmpFiles = <<>>
    /\ (Answered("/api/customers", "GET") /\ http.mgr) =>
          /\ http.resp.status = 200
          /\ http.resp.success

\* init_ssh_manager has failed and GET /api/customer/s1:custA/parameters was
\* answered with 500
C27_Witness ==
    /\ Answered("/api/customer/<id>/parameters", "GET")
    /\ http.req.id = TA
    /\ http.init = "false"
    /\ ~http.mgr
    /\ http.resp.status = 500
    /\ http.resp.error

\* C28: GET /api/customer/{id}/parameters answers 400 to an id without a
\* colon and 404 to an unknown server or customer, both without contacting a
\* server; 500 when the download fails or the downloaded file does not parse
\* into a mapping; and otherwise 200 with the `parameters` entry of the remote
\* file, the empty map when the file has none.
C28_GetParameters ==
    (Answered("/api/customer/<id>/parameters", "GET") /\ http.mgr) =>
        LET id == http.req.id
            f == remoteFiles[<<"s1", "custA">>]
            failure == /\ http.resp.status = 500
                       /\ http.resp.error
                       /\ ~http.resp.success
        IN
        IF ~HasColon(id)
        THEN /\ http.resp.status = 400
             /\ http.resp.error
             /\ NoRemoteContact
        ELSE IF id # TA
        THEN /\ http.resp.status = 404
             /\ http.resp.error
             /\ NoRemoteContact
        ELSE IF pc[1] = "done" \/ ~f.ok \/ f.doc.kind = "scalar"
        THEN failure
        ELSE /\ http.resp.status = 200
             /\ http.resp.success
             /\ ~http.resp.error
             /\ Ops(1) = <<"get">>
             /\ http.resp.parameters =
                    IF f.doc.kind = "map" /\ HasKey(f.doc.m, "parameters")
                    THEN DictGet(f.doc.m, "parameters")
                    ELSE Mp(<<>>)

\* the parameters of s1:custA were downloaded and returned with 200
C28_Witness ==
    /\ Answered("/api/customer/<id>/parameters", "GET")
    /\ http.req.id = TA
    /\ http.resp.status = 200
    /\ http.resp.parameters = Mp(ParamsAB)
    /\ Ops(1) = <<"get">>

\* C29: POST /api/bulk-update answers 400 and runs no pipeline when the body
\* is missing or has no targets, no parameter_name or no parameter_value;
\* otherwise it answers 200 with a results map that has one boolean for each
\* target.
C29_BulkUpdateValidation ==
    (Answered("/api/bulk-update", "POST") /\ http.mgr) =>
        LET body == http.req.body
            d == body.data
        IN
        IF \/ body.kind = "absent"
           \/ ~HasKey(d, "targets") \/ DictGet(d, "targets") = <<>>
           \/ ~HasKey(d, "parameter_name") \/ DictGet(d, "parameter_name") = ""
           \/ ~HasKey(d, "parameter_value") \/ DictGet(d, "parameter_value") = Null
        THEN /\ http.resp.status = 400
             /\ http.resp.error
             /\ NoRemoteContact
        ELSE /\ http.resp.status = 200
             /\ DictKeys(http.resp.results) =
                    {DictGet(d, "targets")[i] : i \in 1..Len(DictGet(d, "targets"))}
             /\ \A i \in 1..Len(http.resp.results) :
                    http.resp.results[i][2] \in {"true", "false"}

\* C30: every response of the API with a status other than 200 is a JSON
\* object with the key `error`, and no response with the key `error` has
\* status 200.
C30_FailuresAreJsonErrors ==
    http.pc = "done" =>
        /\ http.resp.status # 200 => (http.resp.json /\ http.resp.error)
        /\ http.resp.error => http.resp.status # 200

\* C31: when the server entry has both a key file (that exists) and a
\* password, every connection attempt offers the key file first, before the
\* password.
C31_KeyPreferred ==
    (/\ cn.offered.by # ""
     /\ cn.profile.ssh_key
     /\ cn.profile.key_exists
     /\ cn.profile.password) =>
        /\ cn.offered.order # <<>>
        /\ cn.offered.order[1] = "key_filename"

\* C32: update_parameters on a file that parses into a mapping without the
\* key `parameters`, or into nothing at all, returns True when no system call
\* fails; the file then holds a `parameters` mapping with exactly the new
\* parameters, and every top-level key it had before, with its value.
C32_ParametersKeySynthesized ==
    (/\ ed.ret # "none"
     /\ ed.o = AllOk
     /\ ed.pre.exists
     /\ ed.pre.ok
     /\ ed.pre.doc.kind \in {"map", "null"}
     /\ ~HasKey(TopOf(ed.pre), "parameters")) =>
        /\ ed.ret = "true"
        /\ localFile.ok
        /\ localFile.doc.kind = "map"
        /\ HasKey(localFile.doc.m, "parameters")
        /\ DictGet(localFile.doc.m, "parameters") = Mp(ed.params)
        /\ DictKeys(localFile.doc.m) = DictKeys(TopOf(ed.pre)) \cup {"parameters"}
        /\ \A k \in DictKeys(TopOf(ed.pre)) :
               DictGet(localFile.doc.m, k) = DictGet(TopOf(ed.pre), k)

\* a file with `imports` and `framework` and no `parameters` got two parameters
C32_Witness ==
    /\ ed.ret = "true"
    /\ ed.pre.exists
    /\ DictKeys(TopOf(ed.pre)) = {"imports", "framework"}
    /\ ed.params = <<<<"secret", Sc("abc")>>, <<"cache", Sc("redis")>>>>
    /\ DictKeys(TopOf(localFile)) = {"imports", "framework", "parameters"}
    /\ ParamsOf(localFile) = ed.params

\* C33: POST /api/generate-secret is answered with 200 and success whether or
\* not the manager is initialized, with a secret of exactly 64 characters and
\* a `length` of 64; it contacts no server.
C33_GenerateSecret ==
    Answered("/api/generate-secret", "POST") =>
        /\ http.resp.status = 200
        /\ http.resp.json
        /\ http.resp.success
        /\ ~http.resp.error
        /\ Len(http.resp.secret) = 64
        /\ http.resp.length = 64
        /\ NoRemoteContact

\* a secret was served after init_ssh_manager had failed
C33_Witness ==
    /\ Answered("/api/generate-secret", "POST")
    /\ http.init = "false"
    /\ ~http.mgr
    /\ http.resp.status = 200
    /\ Len(http.resp.secret) = 64

\* the place of a remote command or transfer in the order of the pipeline
StepRank ==
    [stat |-> 1, mkdir |-> 2, cp |-> 3, get |-> 4, put |-> 5, chown |-> 6, chmod |-> 7]

\* C34: in one invocation the remote steps happen at most once each and in
\* the order snapshot (stat), backup (mkdir, cp), download (get), upload (put),
\* restore (chown, chmod); the local edit lies between download and upload and
\* the temporary file is removed after everything else.  Upload is attempted
\* only after the download and the edit succeeded, a failed edit leaves the
\* remote file as it was, and restore is attempted only after a successful
\* upload.
C34_StepOrder ==
    \A p \in Procs :
        /\ \A i, j \in 1..Len(Ops(p)) :
               i < j => StepRank[Ops(p)[i]] < StepRank[Ops(p)[j]]
        /\ pc[p] = "edit" => (LastOp(p) = "get" /\ gh[p].got.exists)
        /\ pc[p] = "upload" => (LastOp(p) = "get" /\ gh[p].failed = "")
        /\ "put" \in OpsSet(p) =>
               /\ "get" \in OpsSet(p)
               /\ gh[p].got.exists
               /\ gh[p].failed \notin {"download", "download_raise", "edit"}
        /\ gh[p].failed = "edit" =>
               /\ "put" \notin OpsSet(p)
               /\ remoteFiles = pre[p].files
        /\ OpsSet(p) \cap {"chown", "chmod"} # {} => gh[p].put > 0
        /\ pc[p] \in {"chown", "chmod"} => gh[p].put > 0
        /\ (temp_path[p] # 0 /\ ~TmpExists(temp_path[p])) => pc[p] = "done"

\* an invocation went through every step
C34_Witness ==
    /\ pc[1] = "done"
    /\ ret[1] = "true"
    /\ Ops(1) = <<"stat", "mkdir", "cp", "get", "put", "chown", "chmod">>
    /\ ~TmpExists(temp_path[1])
    /\ remoteFiles # pre[1].files

\* chown comes before every chmod of a log of calls
OwnerFirst(log) ==
    \A j \in 1..Len(log) :
        log[j] = "chmod" => \E i \in 1..(j - 1) : log[i] = "chown"

\* C35: a restore issues the change of owner and group before the change of
\* mode, on the server (chown before chmod among the commands of the
\* invocation) and locally (os.chown before os.chmod in the edit of the
\* temporary file); a restore changes no content: from the successful upload
\* to the removal of the temporary file the remote file holds what was
\* uploaded, and the local restore leaves the content of a file as it is.
C35_OwnerBeforeMode ==
    \A p \in Procs :
        /\ OwnerFirst(Ops(p))
        /\ OwnerFirst(gh[p].edlog)
        /\ pc[p] = "chmod" => LastOp(p) = "chown"
        /\ (gh[p].put > 0 /\ TmpExists(temp_path[p])) =>
               Content(remoteFiles[Target(p)]) = Content(tmpFiles[temp_path[p]])
        /\ TmpExists(temp_path[p]) =>
               \A o \in OneFailure :
                   Content(ParameterUpdater_restore_file_permissions(
                               tmpFiles[temp_path[p]], "640", "root", "wheel", o).file)
                       = Content(tmpFiles[temp_path[p]])

\* both restores have run: locally on the temporary file, then on the server,
\* where owner, group and mode of the snapshot are back on new content
C35_Witness ==
    /\ pc[1] = "cleanup"
    /\ gh[1].edlog = <<"write", "chown", "chmod">>
    /\ Ops(1) = <<"stat", "mkdir", "cp", "get", "put", "chown", "chmod">>
    /\ gh[1].restore = "ok"
    /\ Meta(remoteFiles[Target(1)]) = Meta(pre[1].files[Target(1)])
    /\ Content(remoteFiles[Target(1)]) # Content(pre[1].files[Target(1)])
    /\ Content(remoteFiles[Target(1)]) = Content(tmpFiles[temp_path[1]])

\* the positions of the well-formed targets of the bulk call
WellFormed == {i \in 1..Len(bulk.targets) :
                  \E j \in 1..Len(bulk.targets[i]) : bulk.targets[i][j] = ":"}

\* C36: a bulk operation calls the pipeline for well-formed targets only, for
\* each position of the list at most once and in list order, and for every
\* one of them by the time it returns; a call has returned before the next
\* is made, and no pipeline step runs outside a call.
C36_OncePerTargetInOrder ==
    /\ \A k \in 1..Len(bulk.runs) :
           /\ bulk.runs[k].i \in WellFormed
           /\ <<bulk.runs[k].server, bulk.runs[k].customer>>
                  = Split(bulk.targets[bulk.runs[k].i])
           /\ \A l \in 1..Len(bulk.runs) : k < l => bulk.runs[k].i < bulk.runs[l].i
           /\ k < Len(bulk.runs) => bulk.runs[k].ret \in {"true", "false"}
    /\ pc[1] # "idle" =>
           /\ bulk.pc = "run"
           /\ bulk.runs # <<>>
           /\ bulk.runs[Len(bulk.runs)].ret = "none"
           /\ bulk.runs[Len(bulk.runs)].i = bulk.i
    /\ bulk.pc \in {"loop", "done"} =>
           /\ pc[1] = "idle"
           /\ \A k \in 1..Len(bulk.runs) : bulk.runs[k].ret \in {"true", "false"}
           /\ {bulk.runs[k].i : k \in 1..Len(bulk.runs)}
                  = {i \in WellFormed : i < bulk.i}
    /\ (bulk.pc = "done" /\ ~bulk.error /\ bulk.i > 0) =>
           Len(bulk.runs) = Cardinality(WellFormed)

\* bulk_update_parameter over the same well-formed target twice has made two
\* pipeline calls, the first of which failed
C36_Witness ==
    /\ bulk.pc = "done"
    /\ bulk.op = "bulk_update"
    /\ bulk.targets = <<TA, TA>>
    /\ Len(bulk.runs) = 2
    /\ bulk.runs[1].i = 1
    /\ bulk.runs[2].i = 2
    /\ bulk.runs[1].ret = "false"
    /\ bulk.runs[2].ret = "true"

\* C37: applying a template changes neither the templates stored in the
\* configuration nor the parameter set the loop copies for each target: the
\* sentinel under `secret` and every other value are still there after any
\* number of targets, and what a target is passed differs from the template
\* in nothing but the secret generated for that target.
C37_TemplateNotMutated ==
    /\ bulk.config = bulk_templates
    /\ (bulk.op = "template" /\ HasKey(bulk_templates, bulk.name)) =>
           /\ bulk.parameters = DictGet(bulk_templates, bulk.name)
           /\ \A k \in 1..Len(bulk.runs) :
                  LET ps == bulk.runs[k].params
                      tp == DictGet(bulk_templates, bulk.name)
                  IN /\ Len(ps) = Len(tp)
                     /\ \A j \in 1..Len(tp) :
                            /\ ps[j][1] = tp[j][1]
                            /\ IF tp[j] = <<"secret", Sc("GENERATE_NEW")>>
                               THEN /\ ps[j][2] # Sc("GENERATE_NEW")
                                    /\ \A l \in 1..Len(bulk.runs) :
                                           l # k => bulk.runs[l].params[j][2] # ps[j][2]
                               ELSE ps[j][2] = tp[j][2]

\* rotate_secret was applied to the same target twice: each run got a secret
\* of its own and the stored template still holds the sentinel
C37_Witness ==
    /\ bulk.pc = "done"
    /\ bulk.op = "template"
    /\ bulk.name = "rotate_secret"
    /\ Len(bulk.runs) = 2
    /\ bulk.runs[1].params[1] = <<"secret", Sc("generated-1")>>
    /\ bulk.runs[2].params[1] = <<"secret", Sc("generated-2")>>
    /\ bulk.runs[2].params[2] = <<"api_key", Sc("GENERATE_NEW")>>
    /\ DictGet(bulk.config, "rotate_secret")[1] = <<"secret", Sc("GENERATE_NEW")>>

\* C38: a connection attempt that fails changes neither the registry nor the
\* connections there are; a client whose connect() raised is never in the
\* registry and never what get_ssh_connection returns; and a call that finds
\* nothing usable in the registry goes on to connect.
C38_FailedConnectNotCached ==
    [][/\ cn'.failed # cn.failed =>
              /\ cn'.reg = cn.reg
              /\ cn'.srv = cn.srv
              /\ cn'.live = cn.live
       /\ \A f \in cn'.failed :
              /\ \A s \in ConnServers : cn'.reg[s] # f[1]
              /\ \A t \in Threads : cn'.th[t].ssh # f[1]
       /\ \A t \in Threads :
              (/\ cn.th[t].pc = "lookup"
               /\ cn'.th[t].pc # "lookup"
               /\ (cn.reg[cn.th[t].server] = 0
                      \/ cn.reg[cn.th[t].server] \notin cn.live)) =>
                  cn'.th[t].pc = "connect"]_vars

\* a connect to s1 failed, and the next call connected anew and has the first
\* connection there is
C38_Witness ==
    /\ cn.failed = {<<-1, "s1">>}
    /\ cn.srv = <<"s1">>
    /\ cn.th[1].pc = "use"
    /\ cn.th[1].server = "s1"
    /\ ~cn.th[1].cached
    /\ cn.th[1].ssh = 1
    /\ cn.reg["s1"] = 1
    /\ cn.reg["s2"] = 0

\* C39: when GET /api/customer/{id}/parameters has answered, no temporary
\* file exists, whether none was created (400, 404, manager missing) or one
\* was and the download failed, the file did not parse, or all went well.
C39_TempFileRemoved ==
    Answered("/api/customer/<id>/parameters", "GET") =>
        /\ \A i \in 1..Len(tmpFiles) : ~tmpFiles[i].exists
        /\ http.resp.status \in {200, 500} /\ http.mgr => temp_path[1] # 0

\* the download succeeded, the file did not parse, 500 was answered and the
\* temporary file is gone
C39_Witness ==
    /\ Answered("/api/customer/<id>/parameters", "GET")
    /\ http.resp.status = 500
    /\ pc[1] = "edit"
    /\ Ops(1) = <<"get">>
    /\ temp_path[1] = 1
    /\ ~TmpExists(1)

====
